---- MODULE Spec2Model ----
(***************************************************************************)
(* Model of the Ogmios protocol client (core/blockchain/ogmios_client.py)  *)
(* and of the chain-sync block iterator (core/sync/block_iterator.py).     *)
(*                                                                         *)
(* One OgmiosClient, the websocket connections it opens, the remote        *)
(* service behind them, two caller tasks issuing query methods and one     *)
(* BlockIterator.  A step of a task runs from one await (send / recv) to   *)
(* the next, as the asyncio event loop runs it.                            *)
(*                                                                         *)
(* SpecStream is the block stream alone, init_connection followed by       *)
(* iterate_blocks on a connection nobody else uses, with the scheduling of *)
(* the event loop and a remote that answers what it is asked.              *)
(*                                                                         *)
(* SpecDomain models the code that reads ledger outputs: the order parser  *)
(* and the pool handler (core/orders, core/pools), the swap formulas of    *)
(* the pool, order matching, the Fetcher (core/fetching) and the           *)
(* BlockProcessor (core/sync/processor.py).  A call is drawn with its      *)
(* arguments in the initial state and one step returns from it; calls of   *)
(* process_block follow each other on one processor.                       *)
(***************************************************************************)
EXTENDS Integers, Sequences, FiniteSets, TLC

\* ----------------------------------------------------------------- bounds
MaxQueries == 2   \* requests the caller tasks write in one behaviour
MaxNext == 3      \* nextBlock requests the iterator writes in one behaviour
MaxConn == 1      \* connections opened in one behaviour
MaxPush == 1      \* rolls a scripted remote sends without a request
MaxSlot == 1      \* largest explicit start slot given to init_connection
MaxBlocks == 2    \* largest max_blocks given to iterate_blocks
MaxQty == 2       \* largest amount of an asset in an output
MaxReserve == 4   \* largest reserve of a pool a swap is computed on
MaxBatch == 2     \* utxos the chain data source returns to one fetch
MaxTxs == 2       \* transactions in a block
MaxCalls == 2     \* calls of process_block on one processor
MaxAssets == 2    \* assets other than the native currency in an output

\* -------------------------------------------------------------- constants
Tasks == {"t1", "t2"}
Procs == Tasks \cup {"it"}
Conns == 1..MaxConn

\* Query methods of OgmiosClient and the wire method names they send.
QueryMethods == {"tip", "epoch", "params", "utxo", "submit"}

\* get_chain_tip: methods = ["queryLedgerState/tip", "queryNetwork/tip"]
TipMethods == <<"queryLedgerState/tip", "queryNetwork/tip">>

WireMethod(op, stage) ==
    CASE op \in {"tip", "init"} -> TipMethods[stage]
      [] op = "epoch"  -> "queryLedgerState/epoch"
      [] op = "params" -> "queryLedgerState/protocolParameters"
      [] op = "utxo"   -> "queryLedgerState/utxo"
      [] op = "submit" -> "submitTransaction"

\* What a message read from the socket can be:
\*   fwd   {"result": {"direction": "forward", "block": ...}}
\*   bwd   {"result": {"direction": "backward", ...}}
\*   rdict {"result": {...}}   a dict result with neither of the above
\*   rint  {"result": 7}       a result that is a number
\*   err   {"error": {...}}
ReplyKinds == {"fwd", "bwd", "rdict", "rint", "err"}

HasResult(k) == k \in {"fwd", "bwd", "rdict", "rint"}

\* A chain point {"slot": ..., "id": ...}.  NoPoint stands for start_slot =
\* None, start_hash = None; TipPoint for the point of the ChainTip that
\* get_chain_tip returned.
Point(slot, id) == [slot |-> slot, id |-> id]
NoPoint == Point(0, "")
TipPoint == Point(MaxSlot + 1, "tip")
StartPoints == {NoPoint} \cup {Point(sl, "h") : sl \in 0..MaxSlot}

\* iterate_blocks(max_blocks): None or an integer 0..MaxBlocks
NoLimit == [none |-> TRUE, n |-> 0]
Limit(k) == [none |-> FALSE, n |-> k]
LimitChoices == {NoLimit} \cup {Limit(k) : k \in 0..MaxBlocks}

\* ------------------------------------------------------------------ state
VARIABLES
    ws,          \* OgmiosClient._ws: 0 is None, else the connection it holds
    request_id,  \* OgmiosClient._request_id
    closing,     \* disconnect() between close() and _ws = None: the connection
    last,        \* the last connect() / disconnect() that returned, and its result
    nconn,       \* connections opened so far
    net,         \* per connection: open, inbox (unread replies), pending
    strict,      \* the remote sends exactly one reply per request
    npush,       \* unrequested messages sent so far
    nmsg,        \* messages the remote sent so far (serial of the last one)
    proc,        \* per task / iterator: position and the call in progress
    iter,        \* BlockIterator fields and iterate_blocks locals
    wire,        \* history: every message written, in order
    yielded,     \* history: blocks handed to the caller of iterate_blocks
    itlog,       \* history: replies iterate_blocks received
    stats,       \* BlockProcessor.stats
    res          \* a call into the processor, fetcher or domain model: its
                 \* arguments, and once it has returned (done) its result

vars == <<ws, request_id, closing, last, nconn, net, strict, npush, nmsg,
          proc, iter, wire, yielded, itlog, stats, res>>

clientVars == <<ws, request_id, closing, last, nconn>>
histVars == <<yielded, itlog>>
domainVars == <<stats, res>>
protocolVars == <<ws, request_id, closing, last, nconn, net, strict, npush, nmsg,
                  proc, iter, wire, yielded, itlog>>

\* BlockProcessor.__init__: self.stats
NoStats == [blocks_processed |-> 0, orders_found |-> 0, pools_found |-> 0,
            transactions_processed |-> 0]

\* No call has been made yet.
NoCall == [op |-> "none"]

IdleProc == [pc |-> "idle", out |-> "none", tr |-> <<>>]

\* BlockIterator: _ws, the arguments of init_connection and iterate_blocks,
\* the local count, and what the two intersection replies reported.
IterInit == [ws |-> 0, start |-> NoPoint, request |-> [id |-> 0, point |-> NoPoint],
             max_blocks |-> NoLimit, count |-> 0, fi |-> "none", fi2 |-> "none"]

InitProtocol ==
    /\ ws = 0
    /\ request_id = 0
    /\ closing = 0
    /\ last = "none"
    /\ nconn = 0
    /\ net = [c \in Conns |-> [open |-> FALSE, inbox |-> <<>>, pending |-> <<>>]]
    /\ strict \in BOOLEAN
    /\ npush = 0
    /\ nmsg = 0
    /\ proc = [p \in Procs |-> IdleProc]
    /\ iter = IterInit
    /\ wire = <<>>
    /\ yielded = <<>>
    /\ itlog = <<>>
    /\ stats = NoStats

Init == InitProtocol /\ res = NoCall

\* ------------------------------------------------------------- connection
\* OgmiosClient.connect: on success _ws is the new connection and True is
\* returned; on any exception _ws is left as it was and False is returned.
\* connect_ws is _ws after the call, connect_net the connections after it.
connect_ws(ok) == IF ok THEN nconn + 1 ELSE ws
connect_net(ok) == IF ok THEN [net EXCEPT ![nconn + 1].open = TRUE] ELSE net
connect_returns(ok) == IF ok THEN "connect_true" ELSE "connect_false"

Connect ==
    /\ \E ok \in BOOLEAN :
          /\ ok => nconn < MaxConn
          /\ ws' = connect_ws(ok)
          /\ net' = connect_net(ok)
          /\ nconn' = IF ok THEN nconn + 1 ELSE nconn
          /\ last' = connect_returns(ok)
    /\ UNCHANGED <<request_id, closing, strict, domainVars, npush, nmsg, proc, iter, wire, histVars>>

\* OgmiosClient.disconnect, first half: if self._ws: await self._ws.close()
DisconnectClose ==
    /\ closing = 0
    /\ ws # 0
    /\ closing' = ws
    /\ net' = [net EXCEPT ![ws].open = FALSE]
    /\ UNCHANGED <<ws, request_id, last, nconn, strict, domainVars, npush, nmsg, proc,
                   iter, wire, histVars>>

\* OgmiosClient.disconnect, second half: self._ws = None
DisconnectClear ==
    /\ closing # 0
    /\ closing' = 0
    /\ ws' = 0
    /\ last' = "disconnect"
    /\ UNCHANGED <<request_id, nconn, net, strict, domainVars, npush, nmsg, proc,
                   iter, wire, histVars>>

\* ---------------------------------------------------------------- service
\* A message from the remote: the id it echoes (0: it answers no request),
\* the method it answers and its serial number.  What the message holds is
\* one of Answers(method); the reader finds out which when it reads it.
Msg(id, method, sn) == [id |-> id, method |-> method, sn |-> sn]

\* What the remote may answer to a request: a chain-sync nextBlock is
\* answered with a roll or with anything else a remote at fault may send,
\* findIntersection and the queries with a result or an error.
Answers(method) ==
    CASE method \in {"nextBlock", "roll"} -> ReplyKinds
      [] method = "findIntersection" -> {"rdict", "err"}
      [] OTHER -> {"rdict", "rint", "err"}

\* The remote answers the oldest unanswered request of a connection.
ServiceReply(c) ==
    /\ net[c].open
    /\ net[c].pending # <<>>
    /\ nmsg' = nmsg + 1
    /\ net' = [net EXCEPT ![c].pending = Tail(@),
                          ![c].inbox = Append(@, Msg(Head(net[c].pending).id,
                                                     Head(net[c].pending).method,
                                                     nmsg + 1))]
    /\ UNCHANGED <<clientVars, strict, domainVars, npush, proc, iter, wire, histVars>>

\* A scripted remote plays its next roll to the waiting block stream
\* whether or not a nextBlock request is unanswered.
ScriptedRoll(c) ==
    /\ ~strict
    /\ net[c].open
    /\ proc["it"].pc = "it_recv"
    /\ iter.ws = c
    /\ net[c].inbox = <<>>
    /\ npush < MaxPush
    /\ npush' = npush + 1
    /\ nmsg' = nmsg + 1
    /\ net' = [net EXCEPT ![c].inbox = Append(@, Msg(0, "roll", nmsg + 1))]
    /\ UNCHANGED <<clientVars, strict, domainVars, proc, iter, wire, histVars>>

\* ------------------------------------------------------ correlated request
Req(id, method, point, p) == [id |-> id, method |-> method, point |-> point, by |-> p]

Written(p, method) ==
    Cardinality({i \in 1..Len(wire) : wire[i].by = p /\ wire[i].method = method})

\* The caller tasks take at most MaxQueries ids while they have the client to
\* themselves (after a block stream, the one query of the task that follows).
TaskBudget == proc["it"].pc = "idle" => request_id < MaxQueries

\* One _send_request of a call: the method written, its id, the connection,
\* the id of the reply that was read for it (-1: none yet) and what
\* _send_request made of that reply ("wait": nothing read yet).
Sent(method, id, c) ==
    [m |-> method, id |-> id, conn |-> c, rep |-> -1, r |-> "wait"]

\* _next_request_id without the increment once an id was handed out.
next_request_id_stuck(rq) == IF rq = 0 THEN 1 ELSE rq
\* OgmiosClient._next_request_id
next_request_id(rq) == rq + 1

\* _send_request without its `if not self._ws` test: the send itself fails.
SendRequestRaisesNoTest(w, n) ==
    IF w = 0 \/ ~n[w].open THEN "ConnectionClosed" ELSE "none"

\* _send_request up to its first await: the exception raised, or "none".
\* `if not self._ws: raise OgmiosConnectionError` comes before the id is
\* taken; a send on a closed socket raises after it.
SendRequestRaises(w, n) ==
    IF w = 0 THEN "ConnectionError"
    ELSE IF ~n[w].open THEN "ConnectionClosed"
    ELSE "none"

\* _send_request after recv: what it returns or raises for a reply.
\*   "dict" / "int": the type of the value returned.
SendRequestResult(k) ==
    CASE k = "rint" -> "int"
      [] HasResult(k) -> "dict"
      [] k = "err" -> "QueryError"

IsException(r) ==
    r \in {"QueryError", "ConnectionError", "ConnectionClosed", "AttributeError"}

\* What a query method other than the tip query does with the value
\* _send_request returned: get_current_epoch, get_protocol_parameters and
\* get_utxos_by_address accept any value, submit_transaction calls .get on it.
MethodOutcome(method, v) ==
    IF method = "submitTransaction" /\ v # "dict" THEN "AttributeError" ELSE "ok"

\* get_chain_tip without the `return` of its dict branch: the loop goes on to
\* the next method whatever the first one gave.
TipTriesNextAlways(r) == r \in {"int", "QueryError", "dict"}

\* get_chain_tip: does the loop go on to the next method after this result?
\* A dict makes it return a ChainTip; OgmiosQueryError is caught; a value
\* that is no dict falls through; every other exception propagates.
TipTriesNext(r) == r \in {"int", "QueryError"}

NetWrite(n, c, rq) == [n EXCEPT ![c].pending = Append(@, rq)]
NetTake(n, c) == [n EXCEPT ![c].inbox = Tail(@)]

Cur(p) == proc[p].tr[Len(proc[p].tr)]
Receiving(p) == proc[p].pc = "recv"
SetReply(p, m, k) ==
    [proc[p].tr EXCEPT ![Len(proc[p].tr)] =
        [@ EXCEPT !.rep = m.id, !.r = SendRequestResult(k)]]
SetRaise(p, e) ==
    [proc[p].tr EXCEPT ![Len(proc[p].tr)] = [@ EXCEPT !.r = e]]

\* The query method a task is in: the first method name it wrote tells.
OpOf(p) ==
    CASE proc[p].tr = <<>> -> "none"
      [] proc[p].tr[1].m = TipMethods[1] -> "tip"
      [] OTHER -> "other"
Stage(p) == Len(proc[p].tr)

\* An exception leaves the method: a task is idle again with the exception
\* as the outcome of its call, the iterator has failed.
Raise(p, e, tr) ==
    [proc EXCEPT ![p] = [pc |-> IF p = "it" THEN "failed" ELSE "idle", out |-> e,
                         tr |-> tr]]
Return(p, v, tr) == [proc EXCEPT ![p] = [pc |-> "idle", out |-> v, tr |-> tr]]

\* _send_request(method) run by p up to `await self._ws.recv()`, with _ws = w
\* and the connections n; tr is what p's call has sent before.
SendRequest(p, method, w, n, tr) ==
    LET exc == SendRequestRaises(w, n)
        id  == next_request_id(request_id)
        rq  == Req(id, method, NoPoint, p)
    IN  /\ p \in Tasks /\ exc # "ConnectionError" => TaskBudget
        /\ request_id' = IF exc = "ConnectionError" THEN request_id ELSE id
        /\ IF exc # "none"
           THEN /\ proc' = Raise(p, exc, tr)
                /\ net' = n
                /\ wire' = wire
           ELSE /\ proc' = [proc EXCEPT ![p] = [pc |-> "recv", out |-> "none",
                                                tr |-> Append(tr, Sent(method, id, w))]]
                /\ net' = NetWrite(n, w, rq)
                /\ wire' = Append(wire, rq)

\* A caller task calls a query method: the method runs up to the send of
\* its first _send_request.
QueryCall(p, op) ==
    /\ proc[p].pc = "idle"
    /\ SendRequest(p, WireMethod(op, 1), ws, net, <<>>)
    /\ UNCHANGED <<ws, closing, last, nconn, strict, domainVars, npush, nmsg, iter, histVars>>

\* A query method other than the tip query reads the reply and returns.
QueryRecv(p, k) ==
    /\ Receiving(p)
    /\ OpOf(p) = "other"
    /\ LET c == Cur(p).conn
           m == Head(net[c].inbox)
           r == SendRequestResult(k)
       IN  /\ net[c].inbox # <<>>
           /\ k \in Answers(m.method)
           /\ net' = NetTake(net, c)
           /\ proc' = IF IsException(r) THEN Raise(p, r, SetReply(p, m, k))
                      ELSE Return(p, MethodOutcome(Cur(p).m, r), SetReply(p, m, k))
    /\ UNCHANGED <<clientVars, strict, domainVars, npush, nmsg, iter, wire, histVars>>

\* get_chain_tip of a caller task reads a reply: it returns the tip, goes on
\* to the second method name, or raises.
TipRecv(p, k) ==
    /\ Receiving(p)
    /\ OpOf(p) = "tip"
    /\ LET c == Cur(p).conn
           m == Head(net[c].inbox)
           r == SendRequestResult(k)
       IN  /\ net[c].inbox # <<>>
           /\ k \in Answers(m.method)
           /\ IF TipTriesNext(r) /\ Stage(p) < Len(TipMethods)
              THEN SendRequest(p, TipMethods[Stage(p) + 1], ws, NetTake(net, c),
                               SetReply(p, m, k))
              ELSE /\ proc' = IF r = "dict" THEN Return(p, "ok", SetReply(p, m, k))
                              ELSE Raise(p, IF TipTriesNext(r) THEN "QueryError" ELSE r,
                                         SetReply(p, m, k))
                   /\ net' = NetTake(net, c)
                   /\ UNCHANGED <<request_id, wire>>
    /\ UNCHANGED <<ws, closing, last, nconn, strict, domainVars, npush, nmsg, iter, histVars>>

\* recv on a connection that was closed and has nothing left to read raises
\* ConnectionClosed in the task waiting in _send_request.
QueryRecvClosed(p) ==
    /\ Receiving(p)
    /\ ~net[Cur(p).conn].open
    /\ net[Cur(p).conn].inbox = <<>>
    /\ proc' = Raise(p, "ConnectionClosed", SetRaise(p, "ConnectionClosed"))
    /\ UNCHANGED <<clientVars, net, strict, domainVars, npush, nmsg, iter, wire, histVars>>

\* ------------------------------------------------------------ chain sync
ItAt(pcs) == proc["it"].pc \in pcs

\* `if not self.ogmios.is_connected`: the client's report of its connection
\* state (spec.md, "Connection lifecycle"); ogmios_client.py does not define it.
is_connected == ws # 0

\* `if start_slot and start_hash:` the point of the first findIntersection
IntersectionPoint(start) ==
    IF start.slot # 0 /\ start.id # "" THEN start ELSE TipPoint

\* `if "error" in response or "No intersection found" in str(response)`
IntersectionFailed(k) == k = "err"

\* The rollback test comparing with "forward": a backward roll passes it.
RollbackTestForward(k) ==
    CASE k = "fwd" -> "rollback"
      [] k = "rint" -> "AttributeError"
      [] OTHER -> "no"

\* The rollback test of iterate_blocks:
\* "result" in response and response["result"].get("direction") == "backward"
\* A result that is no dict has no .get, and the test raises.
RollbackTest(k) ==
    CASE k = "bwd" -> "rollback"
      [] k = "rint" -> "AttributeError"
      [] OTHER -> "no"

\* `if "result" in response and "block" in response["result"]`
CarriesBlock(k) == k = "fwd"

\* `if max_blocks and count >= max_blocks: break`
LimitReached(max_blocks, count) ==
    ~max_blocks.none /\ max_blocks.n # 0 /\ count >= max_blocks.n

\* A send on BlockIterator._ws: the exception raised, or "none".
ItSendRaises(n) ==
    IF iter.ws = 0 THEN "AttributeError"
    ELSE IF ~n[iter.ws].open THEN "ConnectionClosed"
    ELSE "none"

\* `await self._ws.send(json.dumps(request))` by the iterator, on the
\* connections n: the request is written, or the send raises.
ItSend(rq, n, pcNext) ==
    LET exc == ItSendRaises(n)
    IN  IF exc # "none"
        THEN /\ proc' = Raise("it", exc, proc["it"].tr)
             /\ net' = n
             /\ wire' = wire
        ELSE /\ proc' = [proc EXCEPT !["it"].pc = pcNext]
             /\ net' = NetWrite(n, iter.ws, rq)
             /\ wire' = Append(wire, rq)

\* _request_next_block of an iterator that asks for the first block only:
\* once one nextBlock is written, nothing more is sent.
request_next_block_once(n, pcNext) ==
    IF Written("it", "nextBlock") = 0
    THEN /\ request_id' = next_request_id(request_id)
         /\ ItSend(Req(next_request_id(request_id), "nextBlock", NoPoint, "it"), n, pcNext)
    ELSE /\ proc' = [proc EXCEPT !["it"].pc = pcNext]
         /\ net' = n
         /\ UNCHANGED <<request_id, wire>>
\* BlockIterator._request_next_block: a nextBlock request with the next id.
request_next_block(n, pcNext) ==
    /\ Written("it", "nextBlock") < MaxNext
    /\ request_id' = next_request_id(request_id)
    /\ ItSend(Req(next_request_id(request_id), "nextBlock", NoPoint, "it"), n, pcNext)

ItHead == Head(net[iter.ws].inbox)
ItCanRead == iter.ws # 0 /\ net[iter.ws].inbox # <<>>

\* init_connection(start_slot, start_hash) up to its first await: connect()
\* when the client is not connected, else self._ws = self.ogmios._ws and the
\* first request of get_chain_tip.
InitCall(start) ==
    /\ ItAt({"idle"})
    /\ IF ~is_connected
       THEN /\ proc' = [proc EXCEPT !["it"].pc = "connecting"]
            /\ iter' = [iter EXCEPT !.start = start]
            /\ UNCHANGED <<request_id, net, wire>>
       ELSE /\ iter' = [iter EXCEPT !.start = start, !.ws = ws]
            /\ SendRequest("it", TipMethods[1], ws, net, <<>>)
    /\ UNCHANGED <<ws, closing, last, nconn, strict, domainVars, npush, nmsg, histVars>>

\* `await self.ogmios.connect()` returns (its result is not looked at), then
\* self._ws = self.ogmios._ws and get_chain_tip sends its first request.
InitConnected(ok) ==
    /\ ItAt({"connecting"})
    /\ ok => nconn < MaxConn
    /\ ws' = connect_ws(ok)
    /\ nconn' = IF ok THEN nconn + 1 ELSE nconn
    /\ last' = connect_returns(ok)
    /\ iter' = [iter EXCEPT !.ws = connect_ws(ok)]
    /\ SendRequest("it", TipMethods[1], connect_ws(ok), connect_net(ok), <<>>)
    /\ UNCHANGED <<closing, strict, domainVars, npush, nmsg, histVars>>

\* get_chain_tip inside init_connection reads a reply.  With a tip,
\* init_connection goes on: the findIntersection request is built (it takes
\* the next id) and sent on BlockIterator._ws.
InitTipRecv(k) ==
    /\ ItAt({"recv"})
    /\ LET c == Cur("it").conn
           m == Head(net[c].inbox)
           r == SendRequestResult(k)
           rq == Req(next_request_id(request_id), "findIntersection",
                     IntersectionPoint(iter.start), "it")
       IN  /\ net[c].inbox # <<>>
           /\ k \in Answers(m.method)
           /\ IF TipTriesNext(r) /\ Stage("it") < Len(TipMethods)
              THEN /\ SendRequest("it", TipMethods[Stage("it") + 1], ws, NetTake(net, c),
                                  SetReply("it", m, k))
                   /\ UNCHANGED iter
              ELSE IF r = "dict"
              THEN /\ request_id' = rq.id
                   /\ iter' = [iter EXCEPT !.request = [id |-> rq.id, point |-> rq.point],
                                            !.start = NoPoint]
                   /\ ItSend(rq, NetTake(net, c), "fi_recv")
              ELSE /\ proc' = Raise("it", IF TipTriesNext(r) THEN "QueryError" ELSE r,
                                    SetReply("it", m, k))
                   /\ net' = NetTake(net, c)
                   /\ UNCHANGED <<request_id, wire, iter>>
    /\ UNCHANGED <<ws, closing, last, nconn, strict, domainVars, npush, nmsg, histVars>>

\* The reply to findIntersection is read.  On an error the same request (same
\* id) is sent again with the tip as point; otherwise the priming nextBlock.
InitFiRecv(k) ==
    /\ ItAt({"fi_recv"})
    /\ ItCanRead
    /\ k \in Answers(ItHead.method)
    /\ IF IntersectionFailed(k)
       THEN /\ iter' = [iter EXCEPT !.fi = "failed", !.request.point = TipPoint]
            /\ ItSend(Req(iter.request.id, "findIntersection", TipPoint, "it"),
                      NetTake(net, iter.ws), "fi2_recv")
            /\ UNCHANGED request_id
       ELSE /\ iter' = [iter EXCEPT !.fi = "found"]
            /\ request_next_block(NetTake(net, iter.ws), "prime_recv")
    /\ UNCHANGED <<ws, closing, last, nconn, strict, domainVars, npush, nmsg, histVars>>

\* `await self._ws.recv()  # Intersection response`: the reply to the second
\* findIntersection is read and not looked at; the priming nextBlock is sent.
InitFi2Recv(k) ==
    /\ ItAt({"fi2_recv"})
    /\ ItCanRead
    /\ k \in Answers(ItHead.method)
    /\ iter' = [iter EXCEPT !.fi2 = IF IntersectionFailed(k) THEN "failed"
                                    ELSE "found"]
    /\ request_next_block(NetTake(net, iter.ws), "prime_recv")
    /\ UNCHANGED <<ws, closing, last, nconn, strict, domainVars, npush, nmsg, histVars>>

\* `await self._ws.recv()` "Discard the intersection confirmation":
\* init_connection returns.
InitPrimeRecv ==
    /\ ItAt({"prime_recv"})
    /\ ItCanRead
    /\ net' = NetTake(net, iter.ws)
    /\ proc' = [proc EXCEPT !["it"].pc = "ready"]
    /\ UNCHANGED <<clientVars, strict, domainVars, npush, nmsg, iter, wire, histVars>>

\* The top of the loop of iterate_blocks: break, or go on to recv.
LoopTop(max_blocks, count) ==
    IF LimitReached(max_blocks, count) THEN "stopped" ELSE "it_recv"

\* The caller starts iterate_blocks(max_blocks) and asks for the first block.
IterCall(max_blocks) ==
    /\ ItAt({"ready"})
    /\ iter' = [iter EXCEPT !.max_blocks = max_blocks, !.count = 0]
    /\ proc' = [proc EXCEPT !["it"].pc = LoopTop(max_blocks, 0)]
    /\ UNCHANGED <<clientVars, net, strict, domainVars, npush, nmsg, wire, histVars>>

\* One pass of the loop from recv on: a rollback ends the stream; otherwise
\* the next nextBlock is requested and then the block is yielded, or the
\* reply is logged as unexpected and the loop goes round.
IterRecv(k) ==
    /\ ItAt({"it_recv"})
    /\ ItCanRead
    /\ k \in Answers(ItHead.method)
    /\ LET m == ItHead
           t == RollbackTest(k)
       IN  /\ itlog' = Append(itlog, [kind |-> k, sn |-> m.sn, at |-> Len(wire)])
           /\ IF t = "rollback"
              THEN /\ proc' = [proc EXCEPT !["it"].pc = "stopped"]
                   /\ net' = NetTake(net, iter.ws)
                   /\ UNCHANGED <<request_id, wire, iter, yielded>>
              ELSE IF t # "no"
              THEN /\ proc' = Raise("it", t, proc["it"].tr)
                   /\ net' = NetTake(net, iter.ws)
                   /\ UNCHANGED <<request_id, wire, iter, yielded>>
              ELSE /\ request_next_block(NetTake(net, iter.ws),
                                         IF CarriesBlock(k) THEN "yielded"
                                         ELSE LoopTop(iter.max_blocks, iter.count))
                   /\ IF CarriesBlock(k) /\ ItSendRaises(NetTake(net, iter.ws)) = "none"
                      THEN /\ iter' = [iter EXCEPT !.count = @ + 1]
                           /\ yielded' = Append(yielded, m.sn)
                      ELSE UNCHANGED <<iter, yielded>>
    /\ UNCHANGED <<ws, closing, last, nconn, strict, domainVars, npush, nmsg>>

\* The caller asks for the next block: the generator resumes after yield.
IterResume ==
    /\ ItAt({"yielded"})
    /\ proc' = [proc EXCEPT !["it"].pc = LoopTop(iter.max_blocks, iter.count)]
    /\ UNCHANGED <<clientVars, net, strict, domainVars, npush, nmsg, iter, wire, histVars>>

\* recv on BlockIterator._ws when the connection was closed and nothing is
\* left to read: ConnectionClosed ends init_connection or the stream.
ItRecvClosed ==
    /\ ItAt({"recv", "fi_recv", "fi2_recv", "prime_recv", "it_recv"})
    /\ LET c == IF ItAt({"recv"}) THEN Cur("it").conn ELSE iter.ws
       IN  /\ c # 0
           /\ ~net[c].open
           /\ net[c].inbox = <<>>
    /\ proc' = Raise("it", "ConnectionClosed", proc["it"].tr)
    /\ UNCHANGED <<clientVars, net, strict, domainVars, npush, nmsg, iter, wire, histVars>>

\* The iterator owns the connection; a caller task queries on it once the
\* stream has ended.
NextSync ==
    \/ ItAt({"idle"}) /\ Connect
    \/ DisconnectClose
    \/ DisconnectClear
    \/ \E c \in Conns : ServiceReply(c)
    \/ \E c \in Conns : ScriptedRoll(c)
    \/ \E start \in StartPoints : InitCall(start)
    \/ \E ok \in BOOLEAN : InitConnected(ok)
    \/ \E k \in ReplyKinds : InitTipRecv(k)
    \/ \E k \in ReplyKinds : InitFiRecv(k)
    \/ \E k \in ReplyKinds : InitFi2Recv(k)
    \/ InitPrimeRecv
    \/ \E mb \in LimitChoices : IterCall(mb)
    \/ \E k \in ReplyKinds : IterRecv(k)
    \/ IterResume
    \/ ItRecvClosed
    \/ ItAt({"stopped", "failed"}) /\ proc["t1"].out = "none" /\ QueryCall("t1", "epoch")
    \/ \E k \in ReplyKinds : QueryRecv("t1", k)
    \/ QueryRecvClosed("t1")

SpecSync == Init /\ [][NextSync]_vars

\* A block stream on a connection nobody else uses or closes, with a remote
\* that answers every nextBlock it answers with a forward roll.
NextStream ==
    \/ \E c \in Conns : ServiceReply(c)
    \/ \E c \in Conns : ScriptedRoll(c)
    \/ \E start \in StartPoints : InitCall(start)
    \/ \E ok \in BOOLEAN : InitConnected(ok)
    \/ \E k \in ReplyKinds : InitTipRecv(k)
    \/ \E k \in ReplyKinds : InitFiRecv(k)
    \/ \E k \in ReplyKinds : InitFi2Recv(k)
    \/ InitPrimeRecv
    \/ \E mb \in LimitChoices : IterCall(mb)
    \/ IterRecv("fwd")
    \/ IterResume

\* The remote answers each request it holds, the event loop runs the
\* iterator when its awaited recv or connect can return, and the caller of
\* iterate_blocks (an `async for`) asks for the next block after each one.
SpecStream ==
    /\ Init
    /\ [][NextStream]_vars
    /\ \A c \in Conns : WF_vars(ServiceReply(c))
    /\ WF_vars(\E ok \in BOOLEAN : InitConnected(ok))
    /\ WF_vars(\E k \in ReplyKinds : InitTipRecv(k))
    /\ WF_vars(\E k \in ReplyKinds : InitFiRecv(k))
    /\ WF_vars(\E k \in ReplyKinds : InitFi2Recv(k))
    /\ WF_vars(InitPrimeRecv)
    /\ WF_vars(IterRecv("fwd"))
    /\ WF_vars(IterResume)

\* ------------------------------------------------------------ the client
\* Two caller tasks, one client, a remote that answers every request once.
NextClient ==
    \/ Connect
    \/ DisconnectClose
    \/ DisconnectClear
    \/ \E c \in Conns : ServiceReply(c)
    \/ \E p \in Tasks, op \in QueryMethods : QueryCall(p, op)
    \/ \E p \in Tasks, k \in ReplyKinds : QueryRecv(p, k)
    \/ \E p \in Tasks, k \in ReplyKinds : TipRecv(p, k)
    \/ \E p \in Tasks : QueryRecvClosed(p)

InitClient == Init /\ strict

SpecClient == InitClient /\ [][NextClient]_vars

\* The event loop runs a task whose awaited recv can return; nothing makes
\* the remote answer.
SpecClientFair ==
    /\ SpecClient
    /\ \A p \in Tasks :
          /\ WF_vars(\E k \in ReplyKinds : QueryRecv(p, k))
          /\ WF_vars(\E k \in ReplyKinds : TipRecv(p, k))
          /\ WF_vars(QueryRecvClosed(p))

\* ------------------------------------------------------- ledger outputs
\* A byte string is a sequence of bytes; bytes.hex() and the hex text of the
\* wire are sequences of hex digits 0..15.  Hashes are shortened to one byte.
Hex(b) == [i \in 1..(2 * Len(b)) |->
              IF i % 2 = 1 THEN b[(i + 1) \div 2] \div 16 ELSE b[i \div 2] % 16]

\* core.types.Token(policy_id, name), both hex text
Token(policy_id, name) == [policy_id |-> policy_id, name |-> name]
ADA == Token(<<>>, <<>>)
is_ada(t) == t.policy_id = <<>> /\ t.name = <<>>

\* core.types.Asset(amount, token)
Asset(amount, token) == [amount |-> amount, token |-> token]

\* pools/minswap_v1.py: the policies of the pool NFT, the pool token and the
\* LP token (first byte of each)
POOL_NFT_POLICY == <<0, 11>>
POOL_TOKEN_POLICY == <<1, 3>>
LP_TOKEN_POLICY == <<14, 4>>
NFT_POLICIES == <<POOL_NFT_POLICY>>
IGNORED_POLICIES == <<POOL_TOKEN_POLICY, LP_TOKEN_POLICY>>
MIN_POOL_ADA == 4000000
POOL_TYPE == "minswap-v1"
FEE_NUM == 997
FEE_DEN == 1000

\* orders/minswap_v1.py
ORDER_SCRIPT_HASH == <<12, 6>>
SCRIPT_HASHES == <<ORDER_SCRIPT_HASH>>
BATCHER_FEE_DEFAULT == 900000
DEPOSIT_DEFAULT == 2500000

\* Byte strings a datum names a token with, and the policies and asset names
\* (hex text) a value carries: a foreign policy and the pool NFT policy.
PolicyBytes == {<<>>, <<16>>, <<11>>}
NameBytes == {<<>>, <<1>>}
AssetKeys == {[policy |-> Hex(pb), name |-> Hex(nb)] :
                 pb \in PolicyBytes \ {<<>>}, nb \in NameBytes}

\* utxo["value"]: {"ada": {"lovelace": n}, policy: {name: amount}}; assets
\* lists the entries of the policies in the order the dict iterates them.
AdaAmounts == {0, BATCHER_FEE_DEFAULT + DEPOSIT_DEFAULT, MIN_POOL_ADA}
Entry(key, amount) == [policy |-> key.policy, name |-> key.name, amount |-> amount]
Entries == {Entry(k, a) : k \in AssetKeys, a \in 0..MaxQty}
KeysDistinct(es) ==
    \A i, j \in 1..Len(es) :
        i # j => ~(es[i].policy = es[j].policy /\ es[i].name = es[j].name)
AssetLists(n) ==
    UNION {{es \in [1..k -> Entries] : KeysDistinct(es)} : k \in 0..n}
Values(n) == [ada : AdaAmounts, assets : AssetLists(n)]

\* A utxo id f"{tx_hash}#{output_index}"
UtxoId(tx_hash, output_index) == [tx_hash |-> tx_hash, output_index |-> output_index]

\* Python's None
None == [none |-> TRUE]

\* --------------------------------------------------------------- datums
\* Datum bytes are modelled by the Plutus data they encode: an order datum,
\* a pool datum, or data of some other shape.
\* PlutusAddress: pub_key_hash and StakingOuter (just) or NoStakingCredential
EnterpriseAddress == [pub_key_hash |-> <<7>>, just |-> FALSE, staking_cred_hash |-> <<>>]
PlutusAddresses == {EnterpriseAddress,
                    [pub_key_hash |-> <<7>>, just |-> TRUE, staking_cred_hash |-> <<9>>]}

\* BuyToken / PoolToken (policy_id: bytes, token_name: bytes)
DatumTokens == [policy_id : PolicyBytes, token_name : NameBytes]

\* MinswapV1OrderDatum; optional_receiver_datum_hash is EmptyDatum
OrderDatumsOf(addresses, amounts) ==
    {[shape |-> "order", sender_address |-> a, receiver_address |-> a,
      buy_token |-> t, buy_amount |-> n,
      batcher_fee |-> BATCHER_FEE_DEFAULT, deposit |-> DEPOSIT_DEFAULT] :
        a \in addresses, t \in DatumTokens, n \in amounts}
OrderDatums == OrderDatumsOf(PlutusAddresses, {MaxQty})

\* MinswapV1PoolDatum; total_liquidity and root_k_last are not read
PoolDatums == [shape : {"pool"}, token_a : DatumTokens, token_b : DatumTokens]

OtherData == [shape |-> "other"]

\* MinswapV1OrderDatum.from_cbor / MinswapV1PoolDatum.from_cbor raise on
\* data of another shape.
parse_datum_raises(schema, cbor) == cbor.shape # schema

\* ---------------------------------------------------------- order parser
\* BaseOrderParser.is_order_utxo; a utxo without script_hash has <<>>
is_order_utxo(utxo) == \E i \in 1..Len(SCRIPT_HASHES) : utxo.script_hash = SCRIPT_HASHES[i]

\* max(non_ada, key=lambda a: a.amount): the first of the largest
FirstMax(as) ==
    as[CHOOSE i \in 1..Len(as) :
          /\ \A j \in 1..Len(as) : as[j].amount <= as[i].amount
          /\ \A j \in 1..(i - 1) : as[j].amount < as[i].amount]

InPolicies(policy, ps) == \E i \in 1..Len(ps) : ps[i] = policy

\* BaseOrderParser.extract_bid_asset_from_utxo
extract_bid_asset_from_utxo(utxo, subtract_lovelace, ignore_policies) ==
    LET kept(e) == ~InPolicies(e.policy, ignore_policies) /\ e.amount > 0
        sel == SelectSeq(utxo.value.assets, kept)
        non_ada == [i \in 1..Len(sel) |->
                       Asset(sel[i].amount, Token(sel[i].policy, sel[i].name))]
        rest == utxo.value.ada - subtract_lovelace
    IN  IF non_ada # <<>> THEN FirstMax(non_ada)
        ELSE Asset(IF rest > 0 THEN rest ELSE 0, ADA)

\* MinswapV1OrderParser._extract_address
extract_address(addr) ==
    [pkh |-> Hex(addr.pub_key_hash),
     skh |-> IF addr.just THEN [none |-> FALSE, hex |-> Hex(addr.staking_cred_hash)]
             ELSE [none |-> TRUE, hex |-> <<>>]]

\* MinswapV1OrderParser.create_order
create_order(utxo, datum, utxo_id) ==
    LET ask_token == Token(Hex(datum.buy_token.policy_id), Hex(datum.buy_token.token_name))
        bid_asset == extract_bid_asset_from_utxo(utxo, datum.batcher_fee + datum.deposit, <<>>)
    IN  [order_id |-> utxo_id, bid_asset |-> bid_asset,
         ask_asset |-> Asset(datum.buy_amount, ask_token),
         batcher_fee |-> datum.batcher_fee, deposit |-> datum.deposit,
         sender |-> extract_address(datum.sender_address),
         beneficiary |-> extract_address(datum.receiver_address),
         utxo_id |-> utxo_id]

\* BaseOrderParser.parse_order: the order, or None when anything raises
parse_order(utxo, datum_cbor, utxo_id) ==
    IF parse_datum_raises("order", datum_cbor) THEN None
    ELSE create_order(utxo, datum_cbor, utxo_id)

\* ----------------------------------------------------------- pool handler
\* The entries of one policy, in dict order: value[policy].items()
PolicyItems(value, policy) ==
    LET of(e) == e.policy = policy
    IN  SelectSeq(value.assets, of)

\* The inner loop with the test amount >= 1 in place of amount == 1
FirstUnitAtLeast(items) ==
    IF \E i \in 1..Len(items) : items[i].amount >= 1
    THEN [none |-> FALSE,
          name |-> items[CHOOSE i \in 1..Len(items) :
                            /\ items[i].amount >= 1
                            /\ \A j \in 1..(i - 1) : items[j].amount < 1].name]
    ELSE None

\* The inner loop of extract_pool_nft_id: the first name with amount == 1
FirstUnit(items) ==
    IF \E i \in 1..Len(items) : items[i].amount = 1
    THEN [none |-> FALSE,
          name |-> items[CHOOSE i \in 1..Len(items) :
                            /\ items[i].amount = 1
                            /\ \A j \in 1..(i - 1) : items[j].amount # 1].name]
    ELSE None

RECURSIVE NftScan(_, _, _)
NftScan(value, policies, i) ==
    IF i > Len(policies) THEN None
    ELSE IF FirstUnit(PolicyItems(value, policies[i])) # None
    THEN FirstUnit(PolicyItems(value, policies[i]))
    ELSE NftScan(value, policies, i + 1)

\* BasePoolHandler.extract_pool_nft_id: the asset name, or None
extract_pool_nft_id(utxo) == NftScan(utxo.value, NFT_POLICIES, 1)

\* BasePoolHandler.is_pool_utxo
is_pool_utxo(utxo) == extract_pool_nft_id(utxo) # None

\* The loop of extract_reserves over the assets from entry i on
RECURSIVE ReservesScan(_, _, _, _, _, _)
ReservesScan(es, i, token_a, token_b, reserve_a, reserve_b) ==
    IF i > Len(es) THEN <<reserve_a, reserve_b>>
    ELSE IF InPolicies(es[i].policy, NFT_POLICIES \o IGNORED_POLICIES)
    THEN ReservesScan(es, i + 1, token_a, token_b, reserve_a, reserve_b)
    ELSE IF es[i].policy = token_a.policy_id /\ es[i].name = token_a.name
    THEN ReservesScan(es, i + 1, token_a, token_b, es[i].amount, reserve_b)
    ELSE IF es[i].policy = token_b.policy_id /\ es[i].name = token_b.name
    THEN ReservesScan(es, i + 1, token_a, token_b, reserve_a, es[i].amount)
    ELSE ReservesScan(es, i + 1, token_a, token_b, reserve_a, reserve_b)

\* extract_reserves with `if` in place of `elif` in the handling of ADA: the
\* ADA amount is taken for each side that names ADA.
extract_reserves_both(utxo, token_a, token_b) ==
    LET r == ReservesScan(utxo.value.assets, 1, token_a, token_b, 0, 0)
        ada_amount == utxo.value.ada
    IN  <<IF is_ada(token_a) /\ ada_amount >= MIN_POOL_ADA THEN ada_amount ELSE r[1],
          IF is_ada(token_b) /\ ada_amount >= MIN_POOL_ADA THEN ada_amount ELSE r[2]>>
\* BasePoolHandler.extract_reserves
extract_reserves(utxo, token_a, token_b) ==
    LET r == ReservesScan(utxo.value.assets, 1, token_a, token_b, 0, 0)
        ada_amount == utxo.value.ada
    IN  IF is_ada(token_a) /\ ada_amount >= MIN_POOL_ADA THEN <<ada_amount, r[2]>>
        ELSE IF is_ada(token_b) /\ ada_amount >= MIN_POOL_ADA THEN <<r[1], ada_amount>>
        ELSE r

\* MinswapV1Pool(pool_id, token_a, token_b, reserve_a, reserve_b, utxo_id)
Pool(pool_type, pool_id, token_a, token_b, reserve_a, reserve_b, utxo_id) ==
    [pool_type |-> pool_type, pool_id |-> pool_id, token_a |-> token_a,
     token_b |-> token_b, reserve_a |-> reserve_a, reserve_b |-> reserve_b,
     utxo_id |-> utxo_id]

\* The test with "and" in place of "or"
ReserveMissingBoth(reserve_a, reserve_b) == reserve_a = 0 /\ reserve_b = 0

\* The zero-reserve test of create_pool
ReserveMissing(reserve_a, reserve_b) == reserve_a = 0 \/ reserve_b = 0

\* MinswapV1PoolHandler.create_pool: the pool, or None
create_pool(utxo, datum, utxo_id) ==
    LET token_a == Token(Hex(datum.token_a.policy_id), Hex(datum.token_a.token_name))
        token_b == Token(Hex(datum.token_b.policy_id), Hex(datum.token_b.token_name))
        pool_id == extract_pool_nft_id(utxo)
        r == extract_reserves(utxo, token_a, token_b)
    IN  IF pool_id = None \/ pool_id.name = <<>> THEN None
        ELSE IF ReserveMissing(r[1], r[2]) THEN None
        ELSE Pool(POOL_TYPE, pool_id.name, token_a, token_b, r[1], r[2], utxo_id)

\* pools/__init__.py: HANDLERS holds the one handler; get_handler_for_nft
\* looks the policy up in the table built from every handler's nft_policies.
get_handler_for_nft(policy_id) ==
    IF InPolicies(policy_id, NFT_POLICIES) THEN [none |-> FALSE, pool_type |-> POOL_TYPE]
    ELSE None

\* BasePoolHandler.parse_pool: the pool, or None when anything raises
parse_pool(utxo, datum_cbor, utxo_id) ==
    IF parse_datum_raises("pool", datum_cbor) THEN None
    ELSE create_pool(utxo, datum_cbor, utxo_id)

\* ------------------------------------------------------------------ swaps
\* What a call gives: a value, or an exception that leaves it
Gives(ret) == [raised |-> FALSE, ret |-> ret]
Raises == [raised |-> TRUE]

\* Python's a // b: ZeroDivisionError for b = 0, else the floor of a / b
FloorDiv(a, b) ==
    IF b = 0 THEN Raises
    ELSE IF b > 0 THEN Gives(a \div b)
    ELSE Gives((0 - a) \div (0 - b))

\* An integer result that may be as large as int(1e18): e18 * 10^18 + units
Num(n) == [e18 |-> 0, units |-> n]
INFEASIBLE == [e18 |-> 1, units |-> 0]

\* get_reserves with the two reserves the other way round
get_reserves_swapped(pool, input_token) ==
    IF input_token = pool.token_a THEN Gives(<<pool.reserve_b, pool.reserve_a>>)
    ELSE IF input_token = pool.token_b THEN Gives(<<pool.reserve_a, pool.reserve_b>>)
    ELSE Raises

\* BasePool.get_reserves: (reserve_in, reserve_out), ValueError for a token
\* that is not in the pool
get_reserves(pool, input_token) ==
    IF input_token = pool.token_a THEN Gives(<<pool.reserve_a, pool.reserve_b>>)
    ELSE IF input_token = pool.token_b THEN Gives(<<pool.reserve_b, pool.reserve_a>>)
    ELSE Raises

\* pool_out rounding the quotient up instead of down
pool_out_round_up(pool, input_token, input_amount) ==
    LET r == get_reserves(pool, input_token)
        r_in == r.ret[1]
        r_out == r.ret[2]
        amt_with_fee == input_amount * FEE_NUM
        q == FloorDiv(amt_with_fee * r_out, r_in * FEE_DEN + amt_with_fee)
    IN  IF r.raised THEN Raises
        ELSE IF q.raised THEN Raises
        ELSE Gives(q.ret + 1)
\* MinswapV1Pool.pool_out
pool_out(pool, input_token, input_amount) ==
    LET r == get_reserves(pool, input_token)
        r_in == r.ret[1]
        r_out == r.ret[2]
        amt_with_fee == input_amount * FEE_NUM
    IN  IF r.raised THEN Raises
        ELSE FloorDiv(amt_with_fee * r_out, r_in * FEE_DEN + amt_with_fee)

\* The guard with > in place of >=
pool_in_infeasible_strict(output_amount, r_out) == output_amount > r_out

\* The guard of pool_in
pool_in_infeasible(output_amount, r_out) == output_amount >= r_out

\* The division of pool_in without the + 1
pool_in_amount_floor(r_in, r_out, output_amount) ==
    FloorDiv(r_in * output_amount * FEE_DEN, (r_out - output_amount) * FEE_NUM)

\* The last line of pool_in
pool_in_amount(r_in, r_out, output_amount) ==
    LET q == FloorDiv(r_in * output_amount * FEE_DEN, (r_out - output_amount) * FEE_NUM)
    IN  IF q.raised THEN Raises ELSE Gives(q.ret + 1)

\* MinswapV1Pool.pool_in
pool_in(pool, output_token, output_amount) ==
    LET r_in == IF output_token = pool.token_a THEN pool.reserve_b ELSE pool.reserve_a
        r_out == IF output_token = pool.token_a THEN pool.reserve_a ELSE pool.reserve_b
        amount == pool_in_amount(r_in, r_out, output_amount)
    IN  IF output_token # pool.token_a /\ output_token # pool.token_b THEN Raises
        ELSE IF pool_in_infeasible(output_amount, r_out) THEN Gives(INFEASIBLE)
        ELSE IF amount.raised THEN Raises
        ELSE Gives(Num(amount.ret))

\* ------------------------------------------------------------------ utxos
\* A utxo as the chain client and the processor build it.
Utxo(tx_hash, output_index, value, script_hash, datum_cbor, datum_hash) ==
    [tx_hash |-> tx_hash, output_index |-> output_index, value |-> value,
     script_hash |-> script_hash, datum_cbor |-> datum_cbor, datum_hash |-> datum_hash]

\* The hex text of a datum: absent, not hex, or the hex of some bytes.
NoDatum == [kind |-> "none"]
BadHex == [kind |-> "badhex"]
HexOf(cbor) == [kind |-> "hex", data |-> cbor]

\* -------------------------------------------------------- block processor
\* An address: its text, whether Address.decode accepts it, and the hash of
\* its payment part.  ORDER_ADDRESS is the key of ORDER_ADDRESS_TO_SCRIPT.
POOL_SCRIPT_HASH == <<14, 1>>
ORDER_ADDRESS == [text |-> "addr1zxn9", decodes |-> TRUE, payment |-> <<10, 6>>]
ORDER_ADDRESS_TO_SCRIPT == ORDER_SCRIPT_HASH
Addresses == {ORDER_ADDRESS,
              [text |-> "addr1z8sn", decodes |-> TRUE, payment |-> POOL_SCRIPT_HASH],
              [text |-> "", decodes |-> FALSE, payment |-> <<>>]}

\* utxo["script_hash"] as _process_transaction sets it; <<>> when it is not set
address_script_hash(address) ==
    IF address = ORDER_ADDRESS THEN ORDER_ADDRESS_TO_SCRIPT
    ELSE IF address.decodes THEN address.payment
    ELSE <<>>

\* bytes.fromhex of hex text
FromHex(h) == [i \in 1..(Len(h) \div 2) |-> h[2 * i - 1] * 16 + h[2 * i]]

\* s[:n]
Take(seq, n) == SubSeq(seq, 1, IF Len(seq) < n THEN Len(seq) ELSE n)

\* Token.__str__: "ADA", or the first 8 characters of the policy and the
\* decoded name (the asset names of NameBytes are ASCII and decode).
TokenStr(t) ==
    IF is_ada(t) THEN [text |-> "ADA"]
    ELSE [policy |-> Take(t.policy_id, 8), name |-> FromHex(t.name)]

\* The attributes and properties BaseOrder and MinswapV1Order define, and the
\* ones _process_transaction reads to build the entry of an order.
OrderAttributes ==
    {"ORDER_TYPE", "POOL_TYPE", "order_id", "bid_asset", "ask_asset", "batcher_fee",
     "deposit", "sender", "beneficiary", "utxo_id", "target_pool_id", "order_type",
     "bid_token", "ask_token", "fee_and_deposit", "can_match_pool", "simulate",
     "would_satisfy"}
OrderEntryReads == <<"order_type", "bid_token", "ask_token", "bid_amount", "ask_amount">>

\* getattr(order, name): raises AttributeError for a name that is not defined
OrderGetAttr(order, name) ==
    CASE name = "order_type" -> "minswap-v1"
      [] name = "bid_token" -> order.bid_asset.token
      [] name = "ask_token" -> order.ask_asset.token
OrderEntryRaises == \E i \in 1..Len(OrderEntryReads) : OrderEntryReads[i] \notin OrderAttributes

\* The dict appended to orders
OrderEntry(utxo_id, order) ==
    [utxo_id |-> utxo_id,
     order_type |-> OrderGetAttr(order, "order_type"),
     bid_token |-> TokenStr(OrderGetAttr(order, "bid_token")),
     ask_token |-> TokenStr(OrderGetAttr(order, "ask_token")),
     bid_amount |-> OrderGetAttr(order, "bid_amount"),
     ask_amount |-> OrderGetAttr(order, "ask_amount")]

\* The dict appended to pools
PoolEntry(utxo_id, pool) ==
    [utxo_id |-> utxo_id, pool_type |-> pool.pool_type,
     token_a |-> TokenStr(pool.token_a), token_b |-> TokenStr(pool.token_b),
     reserve_a |-> pool.reserve_a, reserve_b |-> pool.reserve_b]

\* The body of the loop of _process_transaction for one output: the entries
\* it appends to orders and to pools.
process_output(tx_id, output_idx, output) ==
    LET utxo_id == UtxoId(tx_id, output_idx)
        utxo == Utxo(tx_id, output_idx, output.value,
                     address_script_hash(output.address), output.datum, None)
        order == parse_order(utxo, output.datum.data, utxo_id)
        pool == parse_pool(utxo, output.datum.data, utxo_id)
    IN  IF output.datum = NoDatum THEN [orders |-> <<>>, pools |-> <<>>]
        ELSE [orders |->
                 IF ~is_order_utxo(utxo) THEN <<>>
                 ELSE IF output.datum = BadHex THEN <<>>
                 ELSE IF order = None THEN <<>>
                 ELSE IF OrderEntryRaises THEN <<>>
                 ELSE <<OrderEntry(utxo_id, order)>>,
              pools |->
                 IF ~is_pool_utxo(utxo) THEN <<>>
                 ELSE IF output.datum = BadHex THEN <<>>
                 ELSE IF pool = None THEN <<>>
                 ELSE <<PoolEntry(utxo_id, pool)>>]

\* BlockProcessor._process_transaction: (orders, pools) of the outputs from
\* output i on
RECURSIVE process_transaction(_, _)
process_transaction(tx, i) ==
    IF i > Len(tx.outputs) THEN [orders |-> <<>>, pools |-> <<>>]
    ELSE LET head == process_output(tx.id, i - 1, tx.outputs[i])
             rest == process_transaction(tx, i + 1)
         IN  [orders |-> head.orders \o rest.orders, pools |-> head.pools \o rest.pools]

\* The loop of process_block over the transactions from transaction i on
RECURSIVE process_transactions(_, _)
process_transactions(transactions, i) ==
    IF i > Len(transactions) THEN [orders |-> <<>>, pools |-> <<>>]
    ELSE LET head == process_transaction(transactions[i], 1)
             rest == process_transactions(transactions, i + 1)
         IN  [orders |-> head.orders \o rest.orders, pools |-> head.pools \o rest.pools]

\* The counters of a processor that counts the last block only: the found
\* orders, pools and transactions replace the running totals.
process_block_stats_last(block) ==
    LET found == process_transactions(block.transactions, 1)
    IN  [blocks_processed |-> stats.blocks_processed + 1,
         orders_found |-> Len(found.orders),
         pools_found |-> Len(found.pools),
         transactions_processed |-> Len(block.transactions)]
\* BlockProcessor.process_block: the counters after the call, and its result
process_block_stats(block) ==
    LET found == process_transactions(block.transactions, 1)
    IN  [blocks_processed |-> stats.blocks_processed + 1,
         orders_found |-> stats.orders_found + Len(found.orders),
         pools_found |-> stats.pools_found + Len(found.pools),
         transactions_processed |-> stats.transactions_processed + Len(block.transactions)]
process_block(block) ==
    LET found == process_transactions(block.transactions, 1)
    IN  [block |-> [slot |-> block.slot, height |-> block.height, hash |-> block.id],
         orders |-> found.orders, pools |-> found.pools,
         stats |-> process_block_stats(block)]

\* ---------------------------------------------------------------- fetcher
\* An order datum and a pool datum, and values they parse with
SampleToken == [policy_id |-> <<16>>, token_name |-> <<1>>]
SampleOrderDatum ==
    [shape |-> "order", sender_address |-> EnterpriseAddress,
     receiver_address |-> EnterpriseAddress, buy_token |-> SampleToken,
     buy_amount |-> MaxQty, batcher_fee |-> BATCHER_FEE_DEFAULT,
     deposit |-> DEPOSIT_DEFAULT]
SamplePoolDatum ==
    [shape |-> "pool", token_a |-> [policy_id |-> <<>>, token_name |-> <<>>],
     token_b |-> SampleToken]
NativeValue == [ada |-> MIN_POOL_ADA, assets |-> <<>>]
PoolValue ==
    [ada |-> MIN_POOL_ADA,
     assets |-> <<Entry([policy |-> POOL_NFT_POLICY, name |-> Hex(<<1>>)], 1),
                  Entry([policy |-> Hex(<<16>>), name |-> Hex(<<1>>)], MaxQty)>>]

\* The chain data source (ChainClient): the utxos it returns to a fetch and
\* the datums it knows by hash; get_datum returns None for any other hash.
OrderDatumHash == [none |-> FALSE, hash |-> <<5>>]
PoolDatumHash == [none |-> FALSE, hash |-> <<6>>]
UnknownDatumHash == [none |-> FALSE, hash |-> <<9>>]
ChainClient(utxos) == [utxos |-> utxos]
client_get_datum(client, datum_hash) ==
    IF datum_hash = OrderDatumHash THEN SampleOrderDatum
    ELSE IF datum_hash = PoolDatumHash THEN SamplePoolDatum
    ELSE None

\* Fetcher._get_datum_cbor: the inline datum through bytes.fromhex, which
\* raises ValueError on text that is not hex; else the datum by hash; else None
get_datum_cbor(client, utxo) ==
    IF utxo.datum_cbor # NoDatum
    THEN IF utxo.datum_cbor = BadHex THEN Raises ELSE Gives(utxo.datum_cbor.data)
    ELSE IF utxo.datum_hash # None THEN Gives(client_get_datum(client, utxo.datum_hash))
    ELSE Gives(None)

\* Fetcher._try_parse_order
try_parse_order(client, utxo) ==
    LET datum_cbor == get_datum_cbor(client, utxo)
    IN  IF ~is_order_utxo(utxo) THEN Gives(None)
        ELSE IF datum_cbor.raised THEN Raises
        ELSE IF datum_cbor.ret = None THEN Gives(None)
        ELSE Gives(parse_order(utxo, datum_cbor.ret,
                               UtxoId(utxo.tx_hash, utxo.output_index)))

\* Fetcher._try_parse_pool
try_parse_pool(client, utxo) ==
    LET datum_cbor == get_datum_cbor(client, utxo)
    IN  IF ~is_pool_utxo(utxo) THEN Gives(None)
        ELSE IF datum_cbor.raised THEN Raises
        ELSE IF datum_cbor.ret = None THEN Gives(None)
        ELSE Gives(parse_pool(utxo, datum_cbor.ret,
                              UtxoId(utxo.tx_hash, utxo.output_index)))

\* The loop of fetch_orders over the utxos from utxo i on, orders being the
\* list built so far: script_to_parser holds the parser's script hashes.
RECURSIVE fetch_orders_loop(_, _, _)
fetch_orders_loop(client, i, orders) ==
    IF i > Len(client.utxos) THEN Gives(orders)
    ELSE LET utxo == client.utxos[i]
             order == try_parse_order(client, utxo)
         IN  IF ~InPolicies(utxo.script_hash, SCRIPT_HASHES)
             THEN fetch_orders_loop(client, i + 1, orders)
             ELSE IF order.raised THEN Raises
             ELSE IF order.ret = None THEN fetch_orders_loop(client, i + 1, orders)
             ELSE fetch_orders_loop(client, i + 1, Append(orders, order.ret))

\* Fetcher.fetch_orders() with every parser
fetch_orders(client) == fetch_orders_loop(client, 1, <<>>)

\* The loop of fetch_pools over the utxos get_utxos_by_nft returned
RECURSIVE fetch_pools_loop(_, _, _)
fetch_pools_loop(client, i, pools) ==
    IF i > Len(client.utxos) THEN Gives(pools)
    ELSE LET pool == try_parse_pool(client, client.utxos[i])
         IN  IF pool.raised THEN Raises
             ELSE IF pool.ret = None THEN fetch_pools_loop(client, i + 1, pools)
             ELSE fetch_pools_loop(client, i + 1, Append(pools, pool.ret))

\* Fetcher.fetch_pools() with every handler and no token filter
fetch_pools(client) == fetch_pools_loop(client, 1, <<>>)

\* _get_datum_cbor with the lookup by hash made before the inline datum is
\* looked at.
get_datum_calls_eager(client, utxo) ==
    IF utxo.datum_hash # None THEN <<utxo.datum_hash>> ELSE <<>>

\* The calls of client.get_datum that _get_datum_cbor makes for a utxo: the
\* hashes it passes, in order.
get_datum_calls(client, utxo) ==
    IF utxo.datum_cbor # NoDatum THEN <<>>
    ELSE IF utxo.datum_hash # None THEN <<utxo.datum_hash>>
    ELSE <<>>

\* The calls of client.get_datum made by _try_parse_order and _try_parse_pool
try_parse_order_calls(client, utxo) ==
    IF ~is_order_utxo(utxo) THEN <<>> ELSE get_datum_calls(client, utxo)
try_parse_pool_calls(client, utxo) ==
    IF ~is_pool_utxo(utxo) THEN <<>> ELSE get_datum_calls(client, utxo)

\* The calls of client.get_datum made by fetch_orders and by fetch_pools from
\* utxo i on; an exception leaving _try_parse_* ends the loop.
RECURSIVE fetch_orders_calls(_, _)
fetch_orders_calls(client, i) ==
    IF i > Len(client.utxos) THEN <<>>
    ELSE LET utxo == client.utxos[i]
         IN  IF ~InPolicies(utxo.script_hash, SCRIPT_HASHES)
             THEN fetch_orders_calls(client, i + 1)
             ELSE IF try_parse_order(client, utxo).raised
             THEN try_parse_order_calls(client, utxo)
             ELSE try_parse_order_calls(client, utxo) \o fetch_orders_calls(client, i + 1)
RECURSIVE fetch_pools_calls(_, _)
fetch_pools_calls(client, i) ==
    IF i > Len(client.utxos) THEN <<>>
    ELSE IF try_parse_pool(client, client.utxos[i]).raised
    THEN try_parse_pool_calls(client, client.utxos[i])
    ELSE try_parse_pool_calls(client, client.utxos[i]) \o fetch_pools_calls(client, i + 1)

\* --------------------------------------------------------------- matching
\* MinswapV1Order.POOL_TYPE
ORDER_POOL_TYPE == "minswap-v1"

\* can_match_pool without the test of the pool type
can_match_pool_any_type(order, pool) ==
    {pool.token_a, pool.token_b} = {order.bid_asset.token, order.ask_asset.token}

\* BaseOrder.can_match_pool
can_match_pool(order, pool) ==
    IF pool.pool_type # ORDER_POOL_TYPE THEN FALSE
    ELSE {pool.token_a, pool.token_b} = {order.bid_asset.token, order.ask_asset.token}

\* BaseOrder.simulate: ExecutionResult(output, satisfies_min, profit_vs_min)
simulate(order, pool) ==
    LET output == pool_out(pool, order.bid_asset.token, order.bid_asset.amount)
    IN  IF output.raised THEN Raises
        ELSE Gives([output_amount |-> output.ret,
                    satisfies_min |-> output.ret >= order.ask_asset.amount,
                    profit_vs_min |-> output.ret - order.ask_asset.amount])

\* BaseOrder.would_satisfy: `and` does not call simulate for a pool that
\* does not match
would_satisfy(order, pool) ==
    IF ~can_match_pool(order, pool) THEN Gives(FALSE)
    ELSE IF simulate(order, pool).raised THEN Raises
    ELSE Gives(simulate(order, pool).ret.satisfies_min)

\* The filter of fetch_matchable_orders over the orders from order i on
RECURSIVE matchable(_, _, _)
matchable(orders, pool, i) ==
    IF i > Len(orders) THEN <<>>
    ELSE IF can_match_pool(orders[i], pool)
    THEN <<orders[i]>> \o matchable(orders, pool, i + 1)
    ELSE matchable(orders, pool, i + 1)

\* Fetcher.fetch_matchable_orders
fetch_matchable_orders(client, pool) ==
    IF fetch_orders(client).raised THEN Raises
    ELSE Gives(matchable(fetch_orders(client).ret, pool, 1))

\* -------------------------------------------------- calls into the domain
\* A call that has not returned yet, and the same call once it has
DomainCall(op, args) == [op |-> op, done |-> FALSE, args |-> args]
CallPending(op) == res.op = op /\ ~res.done
CallReturned(op) == res.op = op /\ res.done
CallReturn(ret) == [op |-> res.op, done |-> TRUE, args |-> res.args, ret |-> ret]

\* A call of the fetcher once it has returned or raised, with the calls of
\* client.get_datum it made on the chain data source.
FetchReturn(ret, get_datum_calls_made) ==
    [op |-> res.op, done |-> TRUE, args |-> res.args, ret |-> ret,
     get_datum_calls |-> get_datum_calls_made]

\* parser.parse_order(utxo, datum_cbor, utxo_id) on an output at the order
\* script with its datum bytes.
ParseOrderCalls ==
    {DomainCall("parse_order",
          [utxo |-> Utxo("tx", 0, v, ORDER_SCRIPT_HASH, HexOf(d), None), datum |-> d]) :
        v \in Values(MaxAssets), d \in OrderDatums \cup {OtherData}}
ParseOrder ==
    /\ CallPending("parse_order")
    /\ res' = CallReturn(parse_order(res.args.utxo, res.args.datum, UtxoId("tx", 0)))
    /\ UNCHANGED <<protocolVars, stats>>

\* handler.is_pool_utxo(utxo) and handler.parse_pool(utxo, datum_cbor, utxo_id)
ParsePoolCalls ==
    {DomainCall("parse_pool",
          [utxo |-> Utxo("tx", 0, v, <<>>, HexOf(d), None), datum |-> d]) :
        v \in Values(MaxAssets), d \in PoolDatums \cup {OtherData}}
ParsePool ==
    /\ CallPending("parse_pool")
    /\ res' = CallReturn([candidate |-> is_pool_utxo(res.args.utxo),
                      pool |-> parse_pool(res.args.utxo, res.args.datum, UtxoId("tx", 0))])
    /\ UNCHANGED <<protocolVars, stats>>

\* Outputs of blocks: an output with native-only value at any address with
\* any datum text, and two outputs that parse: an order and a pool.
BlockOutputs ==
    [address : Addresses, value : Values(0),
     datum : {NoDatum, BadHex}
             \cup {HexOf(d) : d \in OrderDatumsOf({EnterpriseAddress}, {MaxQty}) \cup {OtherData}}]
OrderOutput ==
    [address |-> ORDER_ADDRESS, value |-> NativeValue, datum |-> HexOf(SampleOrderDatum)]
PoolOutput ==
    [address |-> [text |-> "addr1z8sn", decodes |-> TRUE, payment |-> POOL_SCRIPT_HASH],
     value |-> PoolValue, datum |-> HexOf(SamplePoolDatum)]
SampleTxs == {[id |-> "t0", outputs |-> <<>>],
              [id |-> "t1", outputs |-> <<PoolOutput>>],
              [id |-> "t2", outputs |-> <<OrderOutput, PoolOutput>>]}
Block(transactions) == [slot |-> 1, height |-> 1, id |-> "b", transactions |-> transactions]
Blocks ==
    {Block(<<[id |-> "t", outputs |-> <<o>>]>>) : o \in BlockOutputs}
    \cup {Block(txs) : txs \in UNION {[1..n -> SampleTxs] : n \in 0..MaxTxs}}

\* processor.process_block(block) on a processor that returned from fewer
\* than MaxCalls calls; args.stats are the counters before the call.
ProcessBlock ==
    /\ res.op \in {"none", "process_block"}
    /\ stats.blocks_processed < MaxCalls
    /\ \E block \in Blocks :
          /\ res' = [op |-> "process_block", done |-> TRUE,
                     args |-> [block |-> block, stats |-> stats],
                     ret |-> process_block(block)]
          /\ stats' = process_block_stats(block)
    /\ UNCHANGED protocolVars


\* The utxos a chain data source returns to fetch_orders and to fetch_pools
OrderUtxos ==
    {Utxo("tx", 0, NativeValue, sh, d, h) :
        sh \in {ORDER_SCRIPT_HASH, POOL_SCRIPT_HASH},
        d \in {NoDatum, BadHex, HexOf(OtherData), HexOf(SampleOrderDatum)},
        h \in {None, OrderDatumHash, UnknownDatumHash}}
PoolUtxos ==
    {Utxo("tx", 0, v, POOL_SCRIPT_HASH, d, h) :
        v \in {NativeValue, PoolValue},
        d \in {NoDatum, BadHex, HexOf(OtherData), HexOf(SamplePoolDatum)},
        h \in {None, PoolDatumHash, UnknownDatumHash}}
Batches(utxos) == UNION {[1..n -> utxos] : n \in 0..MaxBatch}

\* fetcher.fetch_orders()
FetchOrdersCalls ==
    {DomainCall("fetch_orders", [client |-> ChainClient(b)]) : b \in Batches(OrderUtxos)}
FetchOrders ==
    /\ CallPending("fetch_orders")
    /\ res' = FetchReturn(fetch_orders(res.args.client),
                          fetch_orders_calls(res.args.client, 1))
    /\ UNCHANGED <<protocolVars, stats>>

\* fetcher.fetch_pools()
FetchPoolsCalls ==
    {DomainCall("fetch_pools", [client |-> ChainClient(b)]) : b \in Batches(PoolUtxos)}
FetchPools ==
    /\ CallPending("fetch_pools")
    /\ res' = FetchReturn(fetch_pools(res.args.client),
                          fetch_pools_calls(res.args.client, 1))
    /\ UNCHANGED <<protocolVars, stats>>

\* Pools of two different tokens with positive reserves, and the tokens and
\* amounts a swap is computed for
SwapTokens == {ADA, Token(Hex(<<16>>), Hex(<<1>>)), Token(Hex(<<16>>), <<>>)}
SwapPools ==
    {Pool(POOL_TYPE, Hex(<<1>>), t[1], t[2], reserve_a, reserve_b, UtxoId("tx", 0)) :
        t \in {<<ADA, Token(Hex(<<16>>), Hex(<<1>>))>>,
               <<Token(Hex(<<16>>), Hex(<<1>>)), ADA>>,
               <<Token(Hex(<<16>>), Hex(<<1>>)), Token(Hex(<<16>>), <<>>)>>},
        reserve_a \in 1..MaxReserve, reserve_b \in 1..MaxReserve}
SwapAmounts == 0..(MaxReserve + 1)
SwapArgs == [pool : SwapPools, token : SwapTokens, amount : SwapAmounts]

\* pool.pool_out(token, amount)
PoolOutCalls == {DomainCall("pool_out", a) : a \in SwapArgs}
PoolOut ==
    /\ CallPending("pool_out")
    /\ res' = CallReturn(pool_out(res.args.pool, res.args.token, res.args.amount))
    /\ UNCHANGED <<protocolVars, stats>>

\* pool.pool_in(token, amount)
PoolInCalls == {DomainCall("pool_in", a) : a \in SwapArgs}
PoolIn ==
    /\ CallPending("pool_in")
    /\ res' = CallReturn(pool_in(res.args.pool, res.args.token, res.args.amount))
    /\ UNCHANGED <<protocolVars, stats>>

\* Orders to match: the bid is q of the native currency left after fee and
\* deposit, or q of a token; the ask is 1..MaxQty of any swap token.
MatchValues ==
    {[ada |-> BATCHER_FEE_DEFAULT + DEPOSIT_DEFAULT + q, assets |-> <<>>] : q \in 0..MaxQty}
    \cup {[ada |-> BATCHER_FEE_DEFAULT + DEPOSIT_DEFAULT,
           assets |-> <<Entry([policy |-> Hex(<<16>>), name |-> Hex(<<1>>)], q)>>] :
             q \in 1..MaxQty}
MatchDatums ==
    {[shape |-> "order", sender_address |-> EnterpriseAddress,
      receiver_address |-> EnterpriseAddress, buy_token |-> t, buy_amount |-> n,
      batcher_fee |-> BATCHER_FEE_DEFAULT, deposit |-> DEPOSIT_DEFAULT] :
        t \in {[policy_id |-> <<>>, token_name |-> <<>>],
               [policy_id |-> <<16>>, token_name |-> <<1>>],
               [policy_id |-> <<16>>, token_name |-> <<>>]},
        n \in 1..MaxQty}
MatchOrders ==
    {create_order(Utxo("tx", 0, v, ORDER_SCRIPT_HASH, HexOf(d), None), d, UtxoId("tx", 0)) :
        v \in MatchValues, d \in MatchDatums}
\* Pools of this type and pools of another one
MatchPools ==
    SwapPools
    \cup {Pool("sundaeswap-v1", p.pool_id, p.token_a, p.token_b, p.reserve_a,
                p.reserve_b, p.utxo_id) : p \in SwapPools}

\* order.can_match_pool(pool) and order.would_satisfy(pool)
MatchCalls == {DomainCall("match", a) : a \in [order : MatchOrders, pool : MatchPools]}
Match ==
    /\ CallPending("match")
    /\ res' = CallReturn([can_match_pool |-> can_match_pool(res.args.order, res.args.pool),
                          would_satisfy |-> would_satisfy(res.args.order, res.args.pool)])
    /\ UNCHANGED <<protocolVars, stats>>

\* fetcher.fetch_matchable_orders(pool): the chain data source returns order
\* outputs with inline datums, and one without a datum
MatchUtxos ==
    {Utxo("tx", 0, v, ORDER_SCRIPT_HASH, d, None) :
        v \in {[ada |-> BATCHER_FEE_DEFAULT + DEPOSIT_DEFAULT + MaxQty, assets |-> <<>>],
               [ada |-> BATCHER_FEE_DEFAULT + DEPOSIT_DEFAULT,
                assets |-> <<Entry([policy |-> Hex(<<16>>), name |-> Hex(<<1>>)], MaxQty)>>]},
        d \in {NoDatum, HexOf(SampleOrderDatum),
               HexOf([SampleOrderDatum EXCEPT !.buy_token =
                          [policy_id |-> <<>>, token_name |-> <<>>]])}}
FetchMatchablePools == {p \in MatchPools : p.reserve_a = 1 /\ p.reserve_b = MaxReserve}
FetchMatchableCalls ==
    {DomainCall("fetch_matchable_orders", [client |-> ChainClient(b), pool |-> p]) :
        b \in Batches(MatchUtxos), p \in FetchMatchablePools}
FetchMatchable ==
    /\ CallPending("fetch_matchable_orders")
    /\ res' = FetchReturn(fetch_matchable_orders(res.args.client, res.args.pool),
                          fetch_orders_calls(res.args.client, 1))
    /\ UNCHANGED <<protocolVars, stats>>

NextDomain ==
    \/ ParseOrder
    \/ ParsePool
    \/ ProcessBlock
    \/ FetchOrders
    \/ FetchPools
    \/ PoolOut
    \/ PoolIn
    \/ Match
    \/ FetchMatchable

InitDomain ==
    /\ InitProtocol
    /\ strict
    /\ \/ res = NoCall
       \/ res \in ParseOrderCalls
       \/ res \in ParsePoolCalls
       \/ res \in FetchOrdersCalls
       \/ res \in FetchPoolsCalls
       \/ res \in PoolOutCalls
       \/ res \in PoolInCalls
       \/ res \in MatchCalls
       \/ res \in FetchMatchableCalls

SpecDomain == InitDomain /\ [][NextDomain]_vars

\* ------------------------------------------------------------------ claims
NextBlocksWritten == Written("it", "nextBlock")
IntersectionsWritten == Written("it", "findIntersection")
LastReply == itlog[Len(itlog)]

\* iterate_blocks has received N forward rolls and then one backward roll.
RollsThenRollback ==
    /\ itlog # <<>>
    /\ LastReply.kind = "bwd"
    /\ \A i \in 1..(Len(itlog) - 1) : itlog[i].kind = "fwd"

\* C1: when iterate_blocks has received N forward rolls followed by one
\* backward roll, it has yielded exactly the N blocks of those rolls in reply
\* order and has stopped; no nextBlock request was written after the backward
\* roll was received, and N+1 nextBlock requests were written in all.
C1_Sequencing ==
    RollsThenRollback =>
        /\ proc["it"].pc = "stopped"
        /\ Len(yielded) = Len(itlog) - 1
        /\ \A i \in 1..Len(yielded) : yielded[i] = itlog[i].sn
        /\ NextBlocksWritten = Len(itlog)
        /\ \A i \in 1..Len(wire) :
              i > LastReply.at => wire[i].method # "nextBlock"

C1_Witness ==
    /\ RollsThenRollback
    /\ Len(itlog) = 3
    /\ Len(yielded) = 2

\* C2: a second findIntersection is written only after the first one failed,
\* and it names the tip; a nextBlock request is written and a block yielded
\* only after some intersection reply reported success.
C2_IntersectionBeforeStreaming ==
    /\ IntersectionsWritten <= 2
    /\ IntersectionsWritten = 2 => iter.fi = "failed" /\ iter.request.point = TipPoint
    /\ (NextBlocksWritten > 0 \/ yielded # <<>>) =>
            (iter.fi = "found" \/ iter.fi2 = "found")

\* C3: the result or error a query method hands back is taken from the reply
\* whose id is the id of its request.
C3_ReplyMatchesRequest ==
    \A p \in Tasks : \A i \in 1..Len(proc[p].tr) :
        proc[p].tr[i].rep # -1 => proc[p].tr[i].rep = proc[p].tr[i].id

\* C4: at no point have two caller tasks a correlated request unanswered on
\* the connection, and each task reads the reply to its own request.
C4_OneRequestInFlight ==
    /\ Cardinality({p \in Tasks : Receiving(p)}) <= 1
    /\ \A p \in Tasks : \A i \in 1..Len(proc[p].tr) :
          proc[p].tr[i].r \notin {"wait", "ConnectionClosed"}
              => proc[p].tr[i].rep = proc[p].tr[i].id

\* C5: a reply read by iterate_blocks that is neither a forward roll nor a
\* backward roll is the last one it reads and ends the stream with an error:
\* no nextBlock request is written after it.
C5_ProtocolErrorEndsStream ==
    \A i \in 1..Len(itlog) :
        itlog[i].kind \notin {"fwd", "bwd"} =>
            /\ i = Len(itlog)
            /\ proc["it"].pc = "failed"
            /\ \A j \in 1..Len(wire) : j > itlog[i].at => wire[j].method # "nextBlock"

\* C6: iterate_blocks(max_blocks = k) yields at most k blocks, for k >= 0,
\* and with k blocks yielded it does not wait for a further reply.
C6_BlockLimit ==
    ~iter.max_blocks.none =>
        /\ Len(yielded) <= iter.max_blocks.n
        /\ Len(yielded) >= iter.max_blocks.n => ~ItAt({"it_recv"})

\* C7: a query method called while _ws is None raises the connection error;
\* nothing is written and the client (the id counter too) stays as it was.
C7_DisconnectedQueryFails ==
    [][\A p \in Tasks :
          (ws = 0 /\ proc[p].pc = "idle" /\ proc'[p] # proc[p]) =>
              /\ proc'[p] = [pc |-> "idle", out |-> "ConnectionError", tr |-> <<>>]
              /\ wire' = wire
              /\ net' = net
              /\ clientVars' = clientVars]_vars

C7_Witness ==
    \E p \in Tasks :
        /\ proc[p].out = "ConnectionError"
        /\ proc[p].tr = <<>>
        /\ last = "disconnect"
        /\ request_id > 0

\* C8: no correlated request keeps its caller waiting for ever.
C8_RequestEnds == \A p \in Tasks : Receiving(p) ~> ~Receiving(p)

C10_Lifecycle ==
    /\ last = "connect_false" => ws = 0
    /\ last = "connect_true" => ws # 0
    /\ last = "disconnect" => ws = 0

\* The token a datum names, as the domain names it (hex text)
DatumToken(t) == Token(Hex(t.policy_id), Hex(t.token_name))

\* C13: every order the order parser produces, for every output value and
\* every decodable order datum, has a bid token different from its ask token.
C13_BidDiffersFromAsk ==
    CallReturned("parse_order") /\ res.ret # None =>
        res.ret.bid_asset.token # res.ret.ask_asset.token

\* What an output holds of a datum token: its lovelace for the native
\* currency, else the amount of the value's entry of that token (0 if none).
HeldAmount(value, t) ==
    IF is_ada(t) THEN value.ada
    ELSE IF \E i \in 1..Len(value.assets) :
                value.assets[i].policy = t.policy_id /\ value.assets[i].name = t.name
    THEN LET i == CHOOSE i \in 1..Len(value.assets) :
                value.assets[i].policy = t.policy_id /\ value.assets[i].name = t.name
         IN  value.assets[i].amount
    ELSE 0

\* A side of the pool with nothing to trade: the token is absent from the
\* value, or it is the native currency below the minimum pool amount.
SideEmpty(value, t) ==
    \/ ~is_ada(t) /\ HeldAmount(value, t) = 0
    \/ is_ada(t) /\ value.ada < MIN_POOL_ADA

\* C14: every pool the handler produces has both reserves positive, and a
\* candidate output with an empty side for either datum token produces none.
C14_PoolReservesPositive ==
    CallReturned("parse_pool") =>
        /\ res.ret.pool # None => res.ret.pool.reserve_a > 0 /\ res.ret.pool.reserve_b > 0
        /\ ( /\ res.ret.candidate
             /\ res.args.datum.shape = "pool"
             /\ \/ SideEmpty(res.args.utxo.value, DatumToken(res.args.datum.token_a))
                \/ SideEmpty(res.args.utxo.value, DatumToken(res.args.datum.token_b)) )
           => res.ret.pool = None

\* A candidate with a named NFT and a pool datum of two different tokens,
\* one side held and the other empty, was parsed and gave no pool.
C14_Witness ==
    /\ CallReturned("parse_pool")
    /\ res.ret.candidate
    /\ extract_pool_nft_id(res.args.utxo).name # <<>>
    /\ res.args.datum.shape = "pool"
    /\ res.args.datum.token_a # res.args.datum.token_b
    /\ ~SideEmpty(res.args.utxo.value, DatumToken(res.args.datum.token_a))
    /\ SideEmpty(res.args.utxo.value, DatumToken(res.args.datum.token_b))
    /\ res.ret.pool = None

\* The entries of a value under a registered NFT policy
NftEntries(value) ==
    {i \in 1..Len(value.assets) : get_handler_for_nft(value.assets[i].policy) # None}

\* C19: an output is a pool candidate iff some token of a registered NFT
\* policy has amount exactly 1 in it, and every pool produced has the type
\* registered for the policy of such a token and its asset name as pool_id.
C19_CandidateByUnitNft ==
    CallReturned("parse_pool") =>
        LET value == res.args.utxo.value
        IN  /\ res.ret.candidate <=>
                  \E i \in NftEntries(value) : value.assets[i].amount = 1
            /\ res.ret.pool # None =>
                  \E i \in NftEntries(value) :
                      /\ value.assets[i].amount = 1
                      /\ value.assets[i].name = res.ret.pool.pool_id
                      /\ get_handler_for_nft(value.assets[i].policy).pool_type
                            = res.ret.pool.pool_type

\* A pool was produced from a candidate: the output carries a named token
\* of the NFT policy with amount 1, and the pool has its name and type.
C19_Witness ==
    /\ CallReturned("parse_pool")
    /\ res.ret.candidate
    /\ res.ret.pool # None
    /\ \E i \in NftEntries(res.args.utxo.value) :
          /\ res.args.utxo.value.assets[i].amount = 1
          /\ res.args.utxo.value.assets[i].name = res.ret.pool.pool_id
    /\ res.ret.pool.pool_type = POOL_TYPE

\* An output fetch_orders / fetch_pools has to skip, and the order or pool of
\* one it has to return: stated from the output and the chain data source.
DatumOf(client, utxo) ==
    IF utxo.datum_cbor.kind = "hex" THEN utxo.datum_cbor.data
    ELSE IF utxo.datum_cbor.kind = "none" /\ utxo.datum_hash # None
    THEN client_get_datum(client, utxo.datum_hash)
    ELSE None
WellFormedOrders(client) ==
    LET ok(utxo) == /\ is_order_utxo(utxo)
                    /\ DatumOf(client, utxo) # None
                    /\ DatumOf(client, utxo).shape = "order"
        sel == SelectSeq(client.utxos, ok)
    IN  [i \in 1..Len(sel) |->
            create_order(sel[i], DatumOf(client, sel[i]),
                         UtxoId(sel[i].tx_hash, sel[i].output_index))]
WellFormedPools(client) ==
    LET ok(utxo) == /\ DatumOf(client, utxo) # None
                    /\ parse_pool(utxo, DatumOf(client, utxo),
                                  UtxoId(utxo.tx_hash, utxo.output_index)) # None
        sel == SelectSeq(client.utxos, ok)
    IN  [i \in 1..Len(sel) |->
            parse_pool(sel[i], DatumOf(client, sel[i]),
                       UtxoId(sel[i].tx_hash, sel[i].output_index))]

\* C12: for every batch of the chain data source fetch_orders and fetch_pools
\* return without raising, and return the orders / pools of the well-formed
\* outputs, skipping outputs whose datum is missing, not hex or not decodable.
C12_MalformedOutputSkipped ==
    /\ CallReturned("fetch_orders") =>
          ~res.ret.raised /\ res.ret.ret = WellFormedOrders(res.args.client)
    /\ CallReturned("fetch_pools") =>
          ~res.ret.raised /\ res.ret.ret = WellFormedPools(res.args.client)

\* The pool's reserve of a token of the pool, and the pool's other token
ReserveOf(pool, t) == IF t = pool.token_a THEN pool.reserve_a ELSE pool.reserve_b
OtherToken(pool, t) == IF t = pool.token_a THEN pool.token_b ELSE pool.token_a
InPool(pool, t) == t = pool.token_a \/ t = pool.token_b
NumGeq(a, n) == a.e18 > 0 \/ a.units >= n

\* C15 as stated: for every x with 0 < x < r_out the input pool_in
\* asks for the output of pool_out(x) is at least x.
C15_InverseOfForwardCovers ==
    ( /\ CallReturned("pool_out")
      /\ InPool(res.args.pool, res.args.token)
      /\ res.args.amount > 0
      /\ res.args.amount < ReserveOf(res.args.pool, OtherToken(res.args.pool, res.args.token)) )
    => LET back == pool_in(res.args.pool, OtherToken(res.args.pool, res.args.token),
                           res.ret.ret)
       IN  ~back.raised /\ NumGeq(back.ret, res.args.amount)

\* C15: for every y with 0 < y < r_out, swapping the input pool_in(y) asks
\* for gives at least y: pool_out(input_token, pool_in(output_token, y)) >= y.
C15_ForwardOfInverseCovers ==
    ( /\ CallReturned("pool_in")
      /\ InPool(res.args.pool, res.args.token)
      /\ res.args.amount > 0
      /\ res.args.amount < ReserveOf(res.args.pool, res.args.token) )
    => /\ ~res.ret.raised
       /\ res.ret.ret.e18 = 0
       /\ LET forth == pool_out(res.args.pool, OtherToken(res.args.pool, res.args.token),
                                res.ret.ret.units)
          IN  ~forth.raised /\ forth.ret >= res.args.amount

\* pool_in returned an input for 1 < y < r_out on a pool with unequal reserves
C15_Witness ==
    /\ CallReturned("pool_in")
    /\ InPool(res.args.pool, res.args.token)
    /\ res.args.amount > 1
    /\ res.args.amount < ReserveOf(res.args.pool, res.args.token)
    /\ res.args.pool.reserve_a # res.args.pool.reserve_b
    /\ res.ret.ret.e18 = 0
    /\ res.ret.ret.units > 1

\* C16: for a token t of the pool pool_out(t, x) is the floor of
\* (x*997*r_out) / (r_in*1000 + x*997), r_in being the reserve of t and r_out
\* the other reserve; for a token that is not in the pool it raises.
C16_ForwardSwapFormula ==
    CallReturned("pool_out") =>
        LET r_in == ReserveOf(res.args.pool, res.args.token)
            r_out == ReserveOf(res.args.pool, OtherToken(res.args.pool, res.args.token))
            num == res.args.amount * 997 * r_out
            den == r_in * 1000 + res.args.amount * 997
        IN  IF InPool(res.args.pool, res.args.token)
            THEN /\ ~res.ret.raised
                 /\ res.ret.ret * den <= num
                 /\ num < (res.ret.ret + 1) * den
            ELSE res.ret.raised

\* pool_out returned a positive output that the fraction exceeds, on a pool
\* with unequal reserves
C16_Witness ==
    /\ CallReturned("pool_out")
    /\ InPool(res.args.pool, res.args.token)
    /\ res.args.pool.reserve_a # res.args.pool.reserve_b
    /\ ~res.ret.raised
    /\ res.ret.ret > 0
    /\ res.ret.ret * (ReserveOf(res.args.pool, res.args.token) * 1000 + res.args.amount * 997)
         < res.args.amount * 997
             * ReserveOf(res.args.pool, OtherToken(res.args.pool, res.args.token))

\* C17: for a token of the pool pool_in(t, y) returns the sentinel int(1e18)
\* whenever y >= r_out, r_out being the reserve of t, and otherwise
\* floor((r_in*y*1000) / ((r_out - y)*997)) + 1; it never raises, so it never
\* divides by zero, and the divisor it uses is positive.
C17_InverseSwapFormula ==
    CallReturned("pool_in") /\ InPool(res.args.pool, res.args.token) =>
        LET r_out == ReserveOf(res.args.pool, res.args.token)
            r_in == ReserveOf(res.args.pool, OtherToken(res.args.pool, res.args.token))
            y == res.args.amount
            num == r_in * y * 1000
            den == (r_out - y) * 997
        IN  /\ ~res.ret.raised
            /\ IF y >= r_out THEN res.ret.ret = INFEASIBLE
               ELSE /\ den > 0
                    /\ res.ret.ret.e18 = 0
                    /\ (res.ret.ret.units - 1) * den <= num
                    /\ num < res.ret.ret.units * den

\* pool_in returned the sentinel for y equal to the reserve of the token
C17_Witness ==
    /\ CallReturned("pool_in")
    /\ InPool(res.args.pool, res.args.token)
    /\ res.args.amount = ReserveOf(res.args.pool, res.args.token)
    /\ ~res.ret.raised
    /\ res.ret.ret = INFEASIBLE

\* The pool is of the order's declared type and holds exactly the order's
\* two tokens
Matches(order, pool) ==
    /\ pool.pool_type = "minswap-v1"
    /\ \A t \in {pool.token_a, pool.token_b} :
          t = order.bid_asset.token \/ t = order.ask_asset.token
    /\ \A t \in {order.bid_asset.token, order.ask_asset.token} :
          t = pool.token_a \/ t = pool.token_b

\* The swap of the bid amount gives at least the ask amount
OutputCoversAsk(order, pool) ==
    LET r_in == ReserveOf(pool, order.bid_asset.token)
        r_out == ReserveOf(pool, OtherToken(pool, order.bid_asset.token))
        x == order.bid_asset.amount
    IN  x * 997 * r_out >= order.ask_asset.amount * (r_in * 1000 + x * 997)

\* C18: can_match_pool is true iff the pool has the order's declared type and
\* exactly the order's two tokens; would_satisfy never raises and is true iff
\* the pool matches and the simulated output is at least the ask amount;
\* fetch_matchable_orders returns exactly the fetched orders that match.
C18_OrderMatching ==
    /\ CallReturned("match") =>
          /\ res.ret.can_match_pool <=> Matches(res.args.order, res.args.pool)
          /\ ~res.ret.would_satisfy.raised
          /\ res.ret.would_satisfy.ret <=>
                ( /\ Matches(res.args.order, res.args.pool)
                  /\ OutputCoversAsk(res.args.order, res.args.pool) )
    /\ CallReturned("fetch_matchable_orders") =>
          /\ ~res.ret.raised
          /\ LET ok(order) == Matches(order, res.args.pool)
             IN  res.ret.ret = SelectSeq(WellFormedOrders(res.args.client), ok)

\* An order matched a pool whose output does not cover the ask, so
\* would_satisfy is false although can_match_pool is true
C18_Witness ==
    /\ CallReturned("match")
    /\ res.ret.can_match_pool
    /\ ~res.ret.would_satisfy.raised
    /\ ~res.ret.would_satisfy.ret
    /\ res.args.order.bid_asset.amount > 0

\* The one output of a block of one transaction with one output
OnlyOutput(block) == block.transactions[1].outputs[1]
OneOutputBlock(block) ==
    Len(block.transactions) = 1 /\ Len(block.transactions[1].outputs) = 1

\* C11: processing a block whose one output is at the known order address,
\* with a valid order datum and native-only value of at least batcher fee +
\* deposit, returns exactly one order, with the native currency as bid token
\* and the datum's buy amount as ask amount, and adds one to orders_found.
C11_OrderExtracted ==
    ( /\ CallReturned("process_block")
      /\ OneOutputBlock(res.args.block)
      /\ OnlyOutput(res.args.block).address = ORDER_ADDRESS
      /\ OnlyOutput(res.args.block).datum.kind = "hex"
      /\ OnlyOutput(res.args.block).datum.data.shape = "order"
      /\ OnlyOutput(res.args.block).value.assets = <<>>
      /\ OnlyOutput(res.args.block).value.ada >= BATCHER_FEE_DEFAULT + DEPOSIT_DEFAULT )
    => /\ Len(res.ret.orders) = 1
       /\ res.ret.orders[1].bid_token = TokenStr(ADA)
       /\ res.ret.orders[1].ask_amount = OnlyOutput(res.args.block).datum.data.buy_amount
       /\ stats.orders_found = res.args.stats.orders_found + 1


\* The reply iterate_blocks received that carried the yielded block sn.
ReplyOf(sn) == CHOOSE j \in 1..Len(itlog) : itlog[j].sn = sn

\* C21: for every block iterate_blocks has yielded, a nextBlock request was
\* written by the iterator right after the reply carrying that block was
\* received, and it is on the wire in every state in which the block has
\* been handed to the caller.
C21_RequestAhead ==
    \A i \in 1..Len(yielded) :
        /\ \E j \in 1..Len(itlog) : itlog[j].sn = yielded[i]
        /\ itlog[ReplyOf(yielded[i])].kind = "fwd"
        /\ itlog[ReplyOf(yielded[i])].at < Len(wire)
        /\ wire[itlog[ReplyOf(yielded[i])].at + 1].method = "nextBlock"
        /\ wire[itlog[ReplyOf(yielded[i])].at + 1].by = "it"

C21_Witness ==
    /\ Len(yielded) = 2
    /\ ItAt({"yielded"})
    /\ NextBlocksWritten = 3
    /\ wire[Len(wire)].method = "nextBlock"

\* The iterator is waiting in a recv of init_connection or iterate_blocks.
ItWaiting == ItAt({"recv", "fi_recv", "fi2_recv", "prime_recv", "it_recv"})

\* The connection the iterator reads from.
ItConn == IF ItAt({"recv"}) THEN Cur("it").conn ELSE iter.ws

\* Requests written on connection c and not yet consumed by a recv: with one
\* reply per request, the requests the remote has not answered and the
\* replies nobody has read.
Outstanding(c) == Len(net[c].pending) + Len(net[c].inbox)

\* C22: with a remote that sends exactly one reply per request, whenever the
\* iterator waits in a recv of init_connection or iterate_blocks on an open
\* connection, more messages were written on the connection than replies
\* were consumed.
C22_ReceiveWithRequestOutstanding ==
    (strict /\ ItWaiting /\ ItConn # 0 /\ net[ItConn].open) => Outstanding(ItConn) > 0

\* iterate_blocks(max_blocks = k) with k >= 1 has been called after
\* init_connection returned, on a remote that sends one reply per request.
StreamStarted(k) ==
    /\ strict
    /\ ItAt({"it_recv"})
    /\ iter.max_blocks = Limit(k)
    /\ yielded = <<>>

\* C23: on a remote that answers every request once and every nextBlock with
\* a forward roll, iterate_blocks(max_blocks = k) called after
\* init_connection eventually has yielded k blocks and stopped, for k >= 1.
C23_StreamingProgress ==
    \A k \in 1..MaxBlocks :
        StreamStarted(k) ~> (ItAt({"stopped"}) /\ Len(yielded) = k)

C25_UniqueIdsOnWire ==
    \A i, j \in 1..Len(wire) : i # j => wire[i].id # wire[j].id

\* The message written in this step, when one is written.
WrittenNow == wire'[Len(wire')]

\* C26: the first findIntersection of init_connection names the explicit
\* start point when one was given (any slot >= 0 with a hash), and the tip
\* otherwise; a tip query was written before it.
C26_IntersectionStartPoint ==
    [][(Len(wire') = Len(wire) + 1 /\ WrittenNow.method = "findIntersection"
          /\ IntersectionsWritten = 0) =>
            /\ WrittenNow.point = IF iter.start # NoPoint THEN iter.start ELSE TipPoint
            /\ \E i \in 1..Len(wire) : wire[i].method \in {TipMethods[1], TipMethods[2]}]_vars

\* A call of process_block returns in this step.
ProcessBlockReturns == res' # res /\ res'.op = "process_block"

\* C27: the four counters are zero at construction; each call of
\* process_block that returns adds 1 to blocks_processed, the number of
\* transactions of its block to transactions_processed and the lengths of
\* the orders and pools lists it returns to orders_found and pools_found;
\* nothing else changes a counter, none ever decreases, and the stats of the
\* result are the counters at the return.
C27_CountersCumulative ==
    /\ stats = NoStats
    /\ [][/\ ProcessBlockReturns =>
                /\ stats'.blocks_processed = stats.blocks_processed + 1
                /\ stats'.transactions_processed =
                      stats.transactions_processed + Len(res'.args.block.transactions)
                /\ stats'.orders_found = stats.orders_found + Len(res'.ret.orders)
                /\ stats'.pools_found = stats.pools_found + Len(res'.ret.pools)
                /\ res'.ret.stats = stats'
                /\ res'.args.stats = stats
          /\ ~ProcessBlockReturns => stats' = stats
          /\ stats'.blocks_processed >= stats.blocks_processed
          /\ stats'.transactions_processed >= stats.transactions_processed
          /\ stats'.orders_found >= stats.orders_found
          /\ stats'.pools_found >= stats.pools_found]_vars

C27_Witness ==
    /\ CallReturned("process_block")
    /\ stats.blocks_processed = 2
    /\ res.args.stats.pools_found = 2
    /\ res.args.stats.transactions_processed = 2
    /\ Len(res.args.block.transactions) = 1
    /\ Len(res.ret.pools) = 1
    /\ stats.pools_found = 3
    /\ stats.transactions_processed = 3
    /\ res.ret.stats = stats

\* The utxos the fetch of an operation looks at: all of them up to the first
\* one that passes the pre-filter and has an inline datum that is not hex,
\* where the fetch ends with the exception.
Looked(utxos, passes(_)) ==
    LET bad == {i \in 1..Len(utxos) : passes(utxos[i]) /\ utxos[i].datum_cbor = BadHex}
    IN  IF bad = {} THEN utxos
        ELSE SubSeq(utxos, 1, CHOOSE i \in bad : \A j \in bad : i <= j)

\* The hashes of the utxos that need a lookup by hash: they pass the
\* pre-filter and carry no inline datum but a datum hash.
ByHash(utxos, passes(_)) ==
    LET needs(utxo) == passes(utxo) /\ utxo.datum_cbor = NoDatum /\ utxo.datum_hash # None
        sel == SelectSeq(utxos, needs)
    IN  [i \in 1..Len(sel) |-> sel[i].datum_hash]

PassesOrderFilter(utxo) == InPolicies(utxo.script_hash, SCRIPT_HASHES) /\ is_order_utxo(utxo)
PassesPoolFilter(utxo) == is_pool_utxo(utxo)

\* C28: a fetch that returns yields the orders / pools of the outputs whose
\* datum, the inline one when present and else the one found by hash, is
\* there and parses, and nothing for the others; client.get_datum is called
\* exactly for the outputs that pass the pre-filter and have no inline datum
\* but a datum hash, never for one with an inline datum or one that fails
\* the pre-filter.
C28_DatumResolutionOrder ==
    /\ CallReturned("fetch_orders") =>
          /\ ~res.ret.raised => res.ret.ret = WellFormedOrders(res.args.client)
          /\ res.get_datum_calls =
                ByHash(Looked(res.args.client.utxos, PassesOrderFilter), PassesOrderFilter)
    /\ CallReturned("fetch_pools") =>
          /\ ~res.ret.raised => res.ret.ret = WellFormedPools(res.args.client)
          /\ res.get_datum_calls =
                ByHash(Looked(res.args.client.utxos, PassesPoolFilter), PassesPoolFilter)

C28_Witness ==
    /\ CallReturned("fetch_orders")
    /\ Len(res.args.client.utxos) = 2
    /\ res.args.client.utxos[1].script_hash = ORDER_SCRIPT_HASH
    /\ res.args.client.utxos[1].datum_cbor = HexOf(SampleOrderDatum)
    /\ res.args.client.utxos[1].datum_hash = UnknownDatumHash
    /\ res.args.client.utxos[2].script_hash = ORDER_SCRIPT_HASH
    /\ res.args.client.utxos[2].datum_cbor = NoDatum
    /\ res.args.client.utxos[2].datum_hash = OrderDatumHash
    /\ res.get_datum_calls = <<OrderDatumHash>>
    /\ ~res.ret.raised
    /\ Len(res.ret.ret) = 2

\* The datum of a parse_pool call names the same token on both sides.
SameTokenDatum(datum) ==
    /\ datum.shape = "pool"
    /\ DatumToken(datum.token_a) = DatumToken(datum.token_b)

\* C29: every pool the pool handler produces, called directly or through
\* fetch_pools, has token_a # token_b, and a pool datum naming the same
\* token on both sides (the native currency on both included) yields no pool
\* whatever the value of the output.
C29_DistinctPoolTokens ==
    /\ CallReturned("parse_pool") =>
          /\ res.ret.pool # None => res.ret.pool.token_a # res.ret.pool.token_b
          /\ SameTokenDatum(res.args.datum) => res.ret.pool = None
    /\ (CallReturned("fetch_pools") /\ ~res.ret.raised) =>
          \A i \in 1..Len(res.ret.ret) : res.ret.ret[i].token_a # res.ret.ret[i].token_b

C29_Witness ==
    /\ CallReturned("parse_pool")
    /\ res.ret.candidate
    /\ SameTokenDatum(res.args.datum)
    /\ is_ada(DatumToken(res.args.datum.token_a))
    /\ res.args.utxo.value.ada >= MIN_POOL_ADA
    /\ Len(res.args.utxo.value.assets) = 2
    /\ res.ret.pool = None

\* C30: for a pool with positive reserves, a token of the pool and an input
\* x >= 0, y = pool_out(token, x) satisfies 0 <= y < r_out and
\* (r_in + x) * (r_out - y) >= r_in * r_out, and pool_out(token, x + 1) >= y.
C30_SwapKeepsPool ==
    (CallReturned("pool_out") /\ InPool(res.args.pool, res.args.token)) =>
        LET r_in == ReserveOf(res.args.pool, res.args.token)
            r_out == ReserveOf(res.args.pool, OtherToken(res.args.pool, res.args.token))
            x == res.args.amount
            more == pool_out(res.args.pool, res.args.token, x + 1)
        IN  /\ ~res.ret.raised
            /\ 0 <= res.ret.ret
            /\ res.ret.ret < r_out
            /\ (r_in + x) * (r_out - res.ret.ret) >= r_in * r_out
            /\ ~more.raised
            /\ more.ret >= res.ret.ret

\* A swap that pays out, leaves the product larger, and pays out more for
\* one more unit of input
C30_Witness ==
    /\ CallReturned("pool_out")
    /\ InPool(res.args.pool, res.args.token)
    /\ ~res.ret.raised
    /\ res.ret.ret > 0
    /\ (ReserveOf(res.args.pool, res.args.token) + res.args.amount)
          * (ReserveOf(res.args.pool, OtherToken(res.args.pool, res.args.token))
               - res.ret.ret)
        > res.args.pool.reserve_a * res.args.pool.reserve_b
    /\ pool_out(res.args.pool, res.args.token, res.args.amount + 1).ret > res.ret.ret
====
